---- MODULE Spec2Model ----
(***************************************************************************)
(* MCP tool-discovery proxy of cosmic-gao/visual: the server registry, the *)
(* discovery cascade and the batch aggregator (the service source printed  *)
(* in src/README.md, lines 633-1035) and the client: the tool key and the  *)
(* export configuration (components/agent-topology/mcp-service/export.ts), *)
(* the write-back into the toolbox node (agent-topology/topology.tsx) and  *)
(* the controller of the picker (src/unnamed/part_006).                    *)
(*                                                                         *)
(* Strings.  A JavaScript string is modelled as a sequence of atoms.  An   *)
(* atom is either one of the characters the code looks at (space, the      *)
(* three quote characters, "/" and ":") or a word: a maximal run of other  *)
(* characters ("http", "a.com", "server").  Two words are never adjacent,  *)
(* so two atom sequences are equal exactly when the strings are, and       *)
(* startsWith/endsWith/slice on atoms agree with the character versions    *)
(* wherever the code cuts at one of the special characters.                *)
(***************************************************************************)
EXTENDS Integers, Sequences, FiniteSets, TLC

VARIABLES
    servers,    \* README.md:657  const servers = new Map<string, McpServer>()
    handled,    \* the registry request just handled, with its response
    call,       \* the GET /api/mcp/tools/all request in progress, and its response
    disc,       \* the listTools call of each server of that request
    query,      \* the POST /api/mcp/tools request in progress, and its response
    keyIn,      \* the tools handed to createToolKey
    keyOut,     \* what createToolKey returned or threw for them
    normIn,     \* the string handed to the normalizers
    normOut,    \* what each normalizer returned for it, applied once and twice
    cfgIn,      \* the tools handed to createConfig
    cfgOut,     \* what createConfig returned or threw for them
    toolbox,    \* topology.tsx: the tools of the toolbox node (nodeData.tools)
    added,      \* the addTools call just made, with the tools it found
    controller, \* part_006:38-43  the state of useMcpController
    pending,    \* the controller calls that wait for the backend
    done,       \* the controller call that just ended, with the state it found
    calls       \* how many controller calls were made

svcVars == <<servers, handled, call, disc, query>>

keyVars == <<keyIn, keyOut>>

normVars == <<normIn, normOut>>

cfgVars == <<cfgIn, cfgOut>>

boxVars == <<toolbox, added>>

ctlVars == <<controller, pending, done, calls>>

clientVars == <<normVars, cfgVars, boxVars, ctlVars>>

vars == <<servers, handled, call, disc, query, keyIn, keyOut, clientVars>>

-----------------------------------------------------------------------------
(* Bounds of the model *)

\* the registry holds at most this many records (the Map itself is unbounded)
MaxServers == 2

-----------------------------------------------------------------------------
(* String helpers: String.prototype.startsWith / endsWith / slice / trim *)

SP == " "
\* the backtick character (the lexer of TLA+ does not take it inside a string)
BQ == "backtick"
Quotes == {BQ, "\"", "'"}
Specials == {SP, "/", ":"} \cup Quotes
IsWord(a) == a \notin Specials

startsWith(s, p) == Len(s) >= Len(p) /\ SubSeq(s, 1, Len(p)) = p

endsWith(s, p) == Len(s) >= Len(p) /\ SubSeq(s, Len(s) - Len(p) + 1, Len(s)) = p

\* s.slice(0, -1)
dropLast(s) == SubSeq(s, 1, Len(s) - 1)

\* s.slice(1, -1)
dropBoth(s) == SubSeq(s, 2, Len(s) - 1)

RECURSIVE trimStart(_)
trimStart(s) == IF s # <<>> /\ Head(s) = SP THEN trimStart(Tail(s)) ELSE s

RECURSIVE trimEnd(_)
trimEnd(s) == IF s # <<>> /\ s[Len(s)] = SP THEN trimEnd(dropLast(s)) ELSE s

trim(s) == trimEnd(trimStart(s))

-----------------------------------------------------------------------------
(* URL normalisation of the service, README.md:659-687 *)

\* README.md:672-678
normalizeUrl(url) ==
    LET value == trim(url)
        quoted == \E q \in Quotes : startsWith(value, <<q>>) /\ endsWith(value, <<q>>)
        inner == IF quoted THEN trim(dropBoth(value)) ELSE value
    IN  IF endsWith(inner, <<"/">>) THEN dropLast(inner) ELSE inner

\* new URL(s) on the strings of this model: scheme "://" host, then nothing or a
\* path that starts with "/".  A string with a leading quote, without a scheme or
\* without a host makes the constructor throw (ok = FALSE).
ParseUrl(s) ==
    LET rest == SubSeq(s, 6, Len(s))
        wellFormed ==
            /\ Len(s) >= 5
            /\ IsWord(s[1]) /\ s[2] = ":" /\ s[3] = "/" /\ s[4] = "/" /\ IsWord(s[5])
            /\ rest = <<>> \/ rest[1] = "/"
            /\ \A i \in 1..Len(rest) : rest[i] \notin ({SP} \cup Quotes)
    IN  IF wellFormed
        THEN [ok |-> TRUE, protocol |-> <<s[1], ":">>, hostname |-> s[5],
              pathname |-> IF rest = <<>> THEN <<"/">> ELSE rest]
        ELSE [ok |-> FALSE, protocol |-> <<>>, hostname |-> "", pathname |-> <<>>]

\* README.md:659-670
normalizeServer(url) ==
    LET value == normalizeUrl(url)
        u == ParseUrl(value)
    IN  IF u.ok /\ u.hostname = "smithery.ai" /\ startsWith(u.pathname, <<"/", "server", "/">>)
        THEN LET qualifiedName == SubSeq(u.pathname, 4, Len(u.pathname))
                 full == <<"https", ":", "/", "/", "server.smithery.ai", "/">> \o qualifiedName
             IN  IF endsWith(full, <<"/">>) THEN dropLast(full) ELSE full
        ELSE value

\* README.md:680-687
isHttp(url) ==
    LET u == ParseUrl(url)
    IN  u.ok /\ (u.protocol = <<"http", ":">> \/ u.protocol = <<"https", ":">>)

-----------------------------------------------------------------------------
(* The Map of the registry: entries in insertion order, README.md:657 *)

MapHas(m, k) == \E i \in 1..Len(m) : m[i].key = k

MapGet(m, k) == m[CHOOSE i \in 1..Len(m) : m[i].key = k].value

\* Map.prototype.set: an existing key keeps its place, a new key goes last
MapSet(m, k, v) ==
    IF MapHas(m, k)
    THEN [i \in 1..Len(m) |-> IF m[i].key = k THEN [key |-> k, value |-> v] ELSE m[i]]
    ELSE Append(m, [key |-> k, value |-> v])

IsNotKey(e, k) == e.key # k

\* Map.prototype.delete
MapDelete(m, k) == SelectSeq(m, LAMBDA e : IsNotKey(e, k))

\* Array.from(servers.values())
MapValues(m) == [i \in 1..Len(m) |-> m[i].value]

MapKeys(m) == {m[i].key : i \in 1..Len(m)}

-----------------------------------------------------------------------------
(* Responses, README.md:689-695 *)

NoData == [none |-> TRUE]

ok(data) == [ok |-> TRUE, message |-> "", data |-> data]

fail(message) == [ok |-> FALSE, message |-> message, data |-> NoData]

\* the status of a response no handler has set a status for (the default of
\* json(data, status = 200), service/server.ts:39)
DefaultStatus == 200

\* README.md:689-695, 879-1032  ok and fail return plain objects and every
\* route returns one of them: no route builds a Response with a status of its
\* own, as json(data, status) of service/server.ts:39-46 did, so a success
\* and a failure leave the handler with the same status
statusOf(res) == DefaultStatus

\* The failure classes of the HTTP surface: service/server.ts pairs the same
\* messages with the statuses 400, 404 and 409.
ErrorKind(res) ==
    CASE res.ok -> "none"
      [] res.message = "Server not found" -> "NotFound"
      [] res.message = "MCP server URL must be unique" -> "Conflict"
      [] OTHER -> "InvalidInput"

-----------------------------------------------------------------------------
(* Registry routes.  Each handler is synchronous: one action. *)

\* README.md:879-882  "GET /api/mcp/servers"
GetServers(m) == [servers |-> m, res |-> ok(MapValues(m))]

\* README.md:883-907  "POST /api/mcp/servers"
PostServers(m, body) ==
    LET name == trim(body.name)
        url == normalizeServer(body.url)
    IN  IF name = <<>> THEN [servers |-> m, res |-> fail("Server name is required")]
        ELSE IF url = <<>> THEN [servers |-> m, res |-> fail("Server URL is required")]
        ELSE IF ~isHttp(url) THEN [servers |-> m, res |-> fail("Server URL must be http/https")]
        ELSE IF MapHas(m, url) THEN [servers |-> m, res |-> fail("MCP server URL must be unique")]
        ELSE LET server == [name |-> name, url |-> url]
             IN  [servers |-> MapSet(m, url, server), res |-> ok(server)]

\* PUT without the uniqueness check of README.md:930-932: the record is written
\* over whatever the new key holds.
PutServersOverwrite(m, body) ==
    LET url == normalizeServer(body.url)
        nextUrl == normalizeServer(body.nextUrl)
        name == trim(body.name)
    IN  IF url = <<>> THEN [servers |-> m, res |-> fail("url is required")]
        ELSE IF ~MapHas(m, url) THEN [servers |-> m, res |-> fail("Server not found")]
        ELSE LET existing == MapGet(m, url)
                 finalUrl == IF nextUrl # <<>> THEN nextUrl ELSE url
                 next == [name |-> IF name # <<>> THEN name ELSE existing.name,
                          url |-> finalUrl]
             IN  IF ~isHttp(finalUrl)
                 THEN [servers |-> m, res |-> fail("Server URL must be http/https")]
                 ELSE IF finalUrl # url
                 THEN [servers |-> MapSet(MapDelete(m, url), finalUrl, next), res |-> ok(next)]
                 ELSE [servers |-> MapSet(m, url, next), res |-> ok(next)]

\* README.md:909-947  "PUT /api/mcp/servers"
PutServers(m, body) ==
    LET url == normalizeServer(body.url)
        nextUrl == normalizeServer(body.nextUrl)
        name == trim(body.name)
    IN  IF url = <<>> THEN [servers |-> m, res |-> fail("url is required")]
        ELSE IF ~MapHas(m, url) THEN [servers |-> m, res |-> fail("Server not found")]
        ELSE LET existing == MapGet(m, url)
                 finalUrl == IF nextUrl # <<>> THEN nextUrl ELSE url
                 next == [name |-> IF name # <<>> THEN name ELSE existing.name,
                          url |-> finalUrl]
             IN  IF ~isHttp(finalUrl)
                 THEN [servers |-> m, res |-> fail("Server URL must be http/https")]
                 ELSE IF finalUrl # url /\ MapHas(m, finalUrl)
                 THEN [servers |-> m, res |-> fail("MCP server URL must be unique")]
                 ELSE IF finalUrl # url
                 THEN [servers |-> MapSet(MapDelete(m, url), finalUrl, next), res |-> ok(next)]
                 ELSE [servers |-> MapSet(m, url, next), res |-> ok(next)]

\* README.md:949-961  "DELETE /api/mcp/servers"
DeleteServers(m, body) ==
    LET url == normalizeUrl(body.url)
    IN  IF url = <<>> THEN [servers |-> m, res |-> fail("url is required")]
        ELSE IF ~MapHas(m, url) THEN [servers |-> m, res |-> fail("Server not found")]
        ELSE [servers |-> MapDelete(m, url), res |-> ok([ok |-> TRUE])]

-----------------------------------------------------------------------------
(* Request bodies the clients send *)

\* raw URL strings
UrlA == <<"http", ":", "/", "/", "a.com">>
UrlASlash == UrlA \o <<"/">>
UrlASlash2 == UrlA \o <<"/", "/">>
UrlAQuoted == <<SP, BQ>> \o UrlASlash \o <<BQ, SP>>
UrlB == <<"http", ":", "/", "/", "b.com">>
UrlAlias == <<"https", ":", "/", "/", "smithery.ai", "/", "server", "/", "foo">>
UrlCanon == <<"https", ":", "/", "/", "server.smithery.ai", "/", "foo">>
UrlFtp == <<"ftp", ":", "/", "/", "a.com">>
UrlBare == <<"a.com">>

RawUrls == {<<>>, UrlA, UrlASlash, UrlASlash2, UrlAQuoted, UrlB, UrlAlias, UrlCanon, UrlFtp, UrlBare}

RawNames == {<<>>, <<SP>>, <<"s">>, <<SP, "t">>}

PostBodies == [name : RawNames, url : RawUrls]
PutBodies == [url : RawUrls, nextUrl : RawUrls, name : RawNames]
DeleteBodies == [url : RawUrls]

-----------------------------------------------------------------------------------------------------------------------------------------------------
(* Tool discovery of one server, README.md:753-876 *)

Null == [null |-> TRUE]

\* a thrown value: new Error(message), or what fetch or the SDK client rejects with
Err(message) == [isError |-> TRUE, message |-> message]

\* e instanceof Error ? e.message : "Request failed"   (README.md:874, 991, 1013)
MessageOf(e) == IF e # Null /\ e.isError THEN e.message ELSE "Request failed"

\* README.md:753-759; a body that is not JSON has become null (README.md:835, 860)
parseTools(payload) ==
    CASE payload.shape = "null" -> <<>>
      [] payload.shape = "array" -> payload.items
      [] payload.shape = "tools" -> payload.items
      [] payload.shape = "result" -> payload.items
      [] OTHER -> <<>>

\* a value of a parsed JSON body: a string, a number, or a field that is not there
JsonString(s) == [type |-> "string", text |-> s]

JsonNumber(digits) == [type |-> "number", text |-> digits]

JsonMissing == [type |-> "undefined", text |-> <<>>]

\* README.md:697-699
readString(input) == IF input.type = "string" THEN input.text ELSE <<>>

\* mapTool stamping the record with what the entry says of its server
mapToolFromRaw(raw, server) ==
    LET name == readString(raw.name)
        display == IF readString(raw.display_name) # <<>> THEN readString(raw.display_name)
                   ELSE IF readString(raw.displayName) # <<>> THEN readString(raw.displayName)
                   ELSE name
    IN  IF name = <<>> THEN Null
        ELSE [name |-> name, display_name |-> display,
              mcp_server_name |-> IF readString(raw.mcp_server_name) # <<>>
                                  THEN readString(raw.mcp_server_name) ELSE server.name,
              mcp_server_url |-> IF readString(raw.mcp_server_url) # <<>>
                                 THEN readString(raw.mcp_server_url) ELSE server.url]

\* README.md:773-787; description and input_schema are copied and read nowhere
mapTool(raw, server) ==
    LET name == readString(raw.name)
        display == IF readString(raw.display_name) # <<>> THEN readString(raw.display_name)
                   ELSE IF readString(raw.displayName) # <<>> THEN readString(raw.displayName)
                   ELSE name
    IN  IF name = <<>> THEN Null
        ELSE [name |-> name, display_name |-> display,
              mcp_server_name |-> server.name, mcp_server_url |-> server.url]

IsTool(t) == t # Null

\* items.map((raw) => mapTool(raw, server)).filter(Boolean)
mapTools(items, server) ==
    SelectSeq([i \in 1..Len(items) |-> mapTool(items[i], server)], IsTool)

\* Response.ok
resOk(res) == res.status >= 200 /\ res.status <= 299

\* README.md:803-819  listSdk: the SDK client answers with items or throws
listSdk(server, outcome) ==
    IF outcome.kind = "items"
    THEN [ok |-> TRUE, tools |-> mapTools(outcome.items, server), error |-> Null]
    ELSE [ok |-> FALSE, tools |-> <<>>, error |-> outcome.error]

\* README.md:835, 860  res.json().catch(() => null)
readJson(body) == IF body.shape = "unparseable" THEN [shape |-> "null", items |-> <<>>] ELSE body

\* README.md:789-797  fetchTimed: when the timer fires before fetch has
\* settled, controller.abort() rejects the fetch; the finally block clears the
\* timer however fetch has settled
fetchTimed(outcome) ==
    IF outcome.kind = "timeout"
    THEN [settled |-> [kind |-> "reject", error |-> Err("This operation was aborted")],
          timer |-> "cleared"]
    ELSE [settled |-> outcome, timer |-> "cleared"]

\* listGet, listRpc taking a body they cannot read for a failure
listHttpStrict(server, outcome) ==
    IF outcome.kind = "reject"
    THEN [ok |-> FALSE, tools |-> <<>>, error |-> outcome.error]
    ELSE IF ~resOk(outcome.res)
    THEN [ok |-> FALSE, tools |-> <<>>,
          error |-> Err("HTTP " \o ToString(outcome.res.status))]
    ELSE IF outcome.res.body.shape \in {"unparseable", "null", "object"}
    THEN [ok |-> FALSE, tools |-> <<>>, error |-> Err("Invalid tools/list response")]
    ELSE [ok |-> TRUE, tools |-> mapTools(parseTools(readJson(outcome.res.body)), server),
          error |-> Null]

\* README.md:821-838 and 840-863  listGet, listRpc: fetchTimed rejects (network
\* failure, abort on timeout) or yields a response
listHttp(server, outcome) ==
    IF outcome.kind = "reject"
    THEN [ok |-> FALSE, tools |-> <<>>, error |-> outcome.error]
    ELSE IF ~resOk(outcome.res)
    THEN [ok |-> FALSE, tools |-> <<>>,
          error |-> Err("HTTP " \o ToString(outcome.res.status))]
    ELSE [ok |-> TRUE, tools |-> mapTools(parseTools(readJson(outcome.res.body)), server),
          error |-> Null]

\* README.md:865  const steps = [listSdk, listGet, listRpc]
steps == <<"listSdk", "listGet", "listRpc">>

runStep(name, server, outcome) ==
    IF name = "listSdk" THEN listSdk(server, outcome) ELSE listHttp(server, outcome)

\* what the caller in GET /tools/all makes of a finished listTools call
\* README.md:1009-1015
itemOk(server, tools) == [server |-> server, tools |-> tools, err |-> ""]

itemErr(server, e) == [server |-> server, tools |-> <<>>, err |-> MessageOf(e)]

NoItem == [none |-> TRUE]

\* listTools as it starts: the first step is awaited (README.md:866-869).
\* started and results are the record of the steps begun and of how each ended.
listToolsStart(server) ==
    [server |-> server, step |-> 1, last |-> Null, state |-> "pending", item |-> NoItem,
     started |-> <<steps[1]>>, results |-> <<>>]

\* listTools awaiting every step, a success included, and answering with the
\* outcome of the last one.
listToolsStepAwaitAll(d, outcome) ==
    LET r == runStep(steps[d.step], d.server, outcome)
        last == IF r.ok THEN d.last ELSE r.error
        message == MessageOf(last)
    IN  IF d.step < Len(steps)
        THEN [d EXCEPT !.last = last, !.results = Append(@, r),
                       !.step = @ + 1, !.started = Append(@, steps[d.step + 1])]
        ELSE IF r.ok
        THEN [d EXCEPT !.state = "resolved", !.item = itemOk(d.server, r.tools),
                       !.results = Append(@, r)]
        ELSE [d EXCEPT !.last = last, !.results = Append(@, r),
                       !.state = "rejected", !.item = itemErr(d.server, Err(message))]

\* listTools keeping the first error it caught instead of the last.
listToolsStepFirstError(d, outcome) ==
    LET r == runStep(steps[d.step], d.server, outcome)
        last == IF d.last = Null THEN r.error ELSE d.last
        message == MessageOf(last)
    IN  IF r.ok
        THEN [d EXCEPT !.state = "resolved", !.item = itemOk(d.server, r.tools),
                       !.results = Append(@, r)]
        ELSE IF d.step < Len(steps)
        THEN [d EXCEPT !.last = last, !.results = Append(@, r),
                       !.step = @ + 1, !.started = Append(@, steps[d.step + 1])]
        ELSE [d EXCEPT !.last = last, !.results = Append(@, r),
                       !.state = "rejected", !.item = itemErr(d.server, Err(message))]

\* README.md:866-875  the awaited step of listTools settles: return its tools, or
\* keep the error in last and await the next step, or throw after the last step
listToolsStep(d, outcome) ==
    LET r == runStep(steps[d.step], d.server, outcome)
        last == r.error
        message == MessageOf(last)
    IN  IF r.ok
        THEN [d EXCEPT !.state = "resolved", !.item = itemOk(d.server, r.tools),
                       !.results = Append(@, r)]
        ELSE IF d.step < Len(steps)
        THEN [d EXCEPT !.last = last, !.results = Append(@, r),
                       !.step = @ + 1, !.started = Append(@, steps[d.step + 1])]
        ELSE [d EXCEPT !.last = last, !.results = Append(@, r),
                       !.state = "rejected", !.item = itemErr(d.server, Err(message))]

-----------------------------------------------------------------------------
(* GET /api/mcp/tools/all, README.md:1001-1032 *)

RECURSIVE concatTools(_)
concatTools(res) ==
    IF res = <<>> THEN <<>> ELSE Head(res).tools \o concatTools(Tail(res))

HasErr(item) == item.err # ""

errorOf(item) == [url |-> item.server.url, message |-> item.err]

\* Promise.all over calls that are not wrapped in try/catch: it settles as soon
\* as one of them has failed, and what the others would give is lost.
awaitAllFailFast(d) ==
    [ready |-> \/ \A i \in 1..Len(d) : d[i].state # "pending"
               \/ \E i \in 1..Len(d) : d[i].state = "rejected",
     res |-> [i \in 1..Len(d) |->
                 IF d[i].state = "pending" THEN itemOk(d[i].server, <<>>) ELSE d[i].item]]

\* README.md:1007-1017  Promise.all over the wrapped calls, none of which
\* rejects: it resolves once every one has given its item, in the order of list
awaitAll(d) ==
    [ready |-> \A i \in 1..Len(d) : d[i].state # "pending",
     res |-> [i \in 1..Len(d) |-> d[i].item]]

\* an array as the value of a field that may also be undefined
Listed(items) == [items |-> items]

\* README.md:1019-1030  the loop over the settled items and the response
toolsAll(res, m) ==
    LET failed == SelectSeq(res, HasErr)
        errors == [i \in 1..Len(failed) |-> errorOf(failed[i])]
    IN  [tools |-> concatTools(res),
         errors |-> IF Len(errors) # 0 THEN Listed(errors) ELSE Null,
         serverCount |-> Len(m)]

-----------------------------------------------------------------------------
(* The tool key of the client, mcp-service/export.ts *)

RECURSIVE normalizeUrlExportAll(_)
\* normalizeUrl removing every trailing slash instead of one
normalizeUrlExportAll(url) ==
    IF url = <<>> THEN <<>>
    ELSE IF endsWith(url, <<"/">>) THEN normalizeUrlExportAll(dropLast(url)) ELSE url

\* export.ts:29-35
normalizeUrlExport(url) ==
    IF url = <<>> THEN <<>>
    ELSE IF endsWith(url, <<"/">>) THEN dropLast(url) ELSE url

returned(value) == [ok |-> TRUE, value |-> value, error |-> ""]

thrown(message) == [ok |-> FALSE, value |-> <<>>, error |-> message]

\* export.ts:37-46
createToolKey(tool) ==
    IF tool.mcp_server_url = <<>> THEN thrown("tool.mcp_server_url is required")
    ELSE IF tool.name = <<>> THEN thrown("tool.name is required")
    ELSE LET url == normalizeUrlExport(tool.mcp_server_url)
         IN  returned(url \o <<":", ":">> \o tool.name)

-----------------------------------------------------------------------------
(* The export configuration of the client, mcp-service/export.ts:3-27 *)

\* export.ts:4-9  tools.map(...)
normalizeTool(tool) ==
    [name |-> tool.name,
     display_name |-> IF tool.display_name # <<>> THEN tool.display_name ELSE tool.name,
     mcp_server_name |-> tool.mcp_server_name,
     mcp_server_url |-> normalizeUrlExport(tool.mcp_server_url)]

\* export.ts:19
configKey(tool) ==
    tool.mcp_server_url \o <<":", ":">> \o tool.name \o <<":", ":">> \o tool.mcp_server_name

\* export.ts:13-18  the checks of the loop on one normalized tool
configCheck(tool) ==
    IF tool.name = <<>> THEN "tool.name is required"
    ELSE IF tool.mcp_server_url = <<>> THEN "tool.mcp_server_url is required"
    ELSE ""

\* createConfig removing the tools whose key is already there
createConfigDedup(tools) ==
    LET all == [i \in 1..Len(tools) |-> normalizeTool(tools[i])]
        First(i) == \A j \in 1..(i - 1) : configKey(all[j]) # configKey(all[i])
        idx == {i \in 1..Len(all) : First(i)}
        Rank(i) == Cardinality({j \in idx : j <= i})
        normalizedTools == [n \in 1..Cardinality(idx) |-> all[CHOOSE i \in idx : Rank(i) = n]]
        bad == {i \in 1..Len(all) : configCheck(all[i]) # ""}
    IN  IF bad # {}
        THEN thrown(configCheck(all[CHOOSE i \in bad : \A j \in bad : i <= j]))
        ELSE returned([tools |-> normalizedTools,
                       interrupt_config |-> [k \in {configKey(all[i]) : i \in 1..Len(all)} |-> TRUE]])

\* export.ts:3-27  the loop throws at the first tool that fails a check
createConfig(tools) ==
    LET normalizedTools == [i \in 1..Len(tools) |-> normalizeTool(tools[i])]
        bad == {i \in 1..Len(normalizedTools) : configCheck(normalizedTools[i]) # ""}
    IN  IF bad # {}
        THEN thrown(configCheck(normalizedTools[CHOOSE i \in bad : \A j \in bad : i <= j]))
        ELSE returned([tools |-> normalizedTools,
                       interrupt_config |->
                           [k \in {configKey(normalizedTools[i]) : i \in 1..Len(normalizedTools)}
                               |-> TRUE]])

-----------------------------------------------------------------------------
(* The write-back into the toolbox node, agent-topology/topology.tsx:502-530 *)

\* topology.tsx:513-518  the item pushed for a tool
toolboxItem(id, tool) ==
    [id |-> id,
     name |-> IF tool.display_name # <<>> THEN tool.display_name ELSE tool.name,
     source |-> tool.mcp_server_name,
     status |-> "active"]

existingIdsOf(currentTools) == {currentTools[i].id : i \in 1..Len(currentTools)}

RECURSIVE addToolsNoMark(_, _, _)
\* the loop without existingIds.add(id): only the ids found at the start are skipped
addToolsNoMark(nextTools, existingIds, tools) ==
    IF tools = <<>> THEN [threw |-> FALSE, tools |-> nextTools]
    ELSE LET id == createToolKey(Head(tools))
         IN  IF ~id.ok THEN [threw |-> TRUE, tools |-> nextTools]
             ELSE IF id.value \in existingIds
             THEN addToolsNoMark(nextTools, existingIds, Tail(tools))
             ELSE addToolsNoMark(Append(nextTools, toolboxItem(id.value, Head(tools))),
                                 existingIds, Tail(tools))

RECURSIVE addToolsLoop(_, _, _)
\* topology.tsx:508-520  the loop over the tools to add; createToolKey may throw
addToolsLoop(nextTools, existingIds, tools) ==
    IF tools = <<>> THEN [threw |-> FALSE, tools |-> nextTools]
    ELSE LET id == createToolKey(Head(tools))
         IN  IF ~id.ok THEN [threw |-> TRUE, tools |-> nextTools]
             ELSE IF id.value \in existingIds
             THEN addToolsLoop(nextTools, existingIds, Tail(tools))
             ELSE addToolsLoop(Append(nextTools, toolboxItem(id.value, Head(tools))),
                               existingIds \cup {id.value}, Tail(tools))

\* topology.tsx:503-526  the updater handed to updateNodeData
addTools(currentTools, tools) == addToolsLoop(currentTools, existingIdsOf(currentTools), tools)

-----------------------------------------------------------------------------
(* What the MCP servers answer *)

RawRead ==
    [name |-> JsonString(<<"read">>), display_name |-> JsonMissing, displayName |-> JsonMissing,
     mcp_server_name |-> JsonMissing, mcp_server_url |-> JsonMissing]

\* an entry that names a server of its own
RawWrite ==
    [name |-> JsonString(<<"write">>), display_name |-> JsonString(<<"Write">>),
     displayName |-> JsonMissing,
     mcp_server_name |-> JsonString(<<"raw">>), mcp_server_url |-> JsonString(UrlCanon)]

RawNameless ==
    [name |-> JsonMissing, display_name |-> JsonString(<<"x">>), displayName |-> JsonMissing,
     mcp_server_name |-> JsonMissing, mcp_server_url |-> JsonMissing]

\* an entry whose name is the number 5
RawNumbered ==
    [name |-> JsonNumber(<<"5">>), display_name |-> JsonMissing,
     displayName |-> JsonString(<<"five">>),
     mcp_server_name |-> JsonMissing, mcp_server_url |-> JsonMissing]

\* one answer with two entries without a name between two tools
Items == <<RawRead, RawNameless, RawNumbered, RawWrite>>

SdkOutcomes ==
    {[kind |-> "items", items |-> Items], [kind |-> "throw", error |-> Err("sdk failed")]}

Payloads ==
    {[shape |-> "null", items |-> <<>>], [shape |-> "array", items |-> Items],
     [shape |-> "tools", items |-> Items], [shape |-> "result", items |-> Items],
     [shape |-> "object", items |-> <<>>], [shape |-> "unparseable", items |-> <<>>]}

Ok200 == {[kind |-> "response", res |-> [status |-> 200, body |-> b]] : b \in Payloads}

NoBody == [shape |-> "null", items |-> <<>>]

GetOutcomes ==
    {[kind |-> "response", res |-> [status |-> 404, body |-> NoBody]]} \cup Ok200

RpcOutcomes ==
    {[kind |-> "reject", error |-> Err("fetch failed")],
     [kind |-> "reject", error |-> Err("")],
     [kind |-> "response", res |-> [status |-> 500, body |-> NoBody]]} \cup Ok200

Outcomes(name) ==
    CASE name = "listSdk" -> SdkOutcomes
      [] name = "listGet" -> GetOutcomes
      [] OTHER -> RpcOutcomes

\* how the fetch of a REST GET or JSON-RPC POST ends: it rejects, the timer
\* fires first, or the status line and the headers of a response arrive
Unread == [shape |-> "unread", items |-> <<>>]

Fetched(name) ==
    {o \in Outcomes(name) : o.kind = "reject"} \cup
    {[kind |-> "timeout", error |-> Null]} \cup
    {[kind |-> "response", res |-> [status |-> n, body |-> Unread]] :
        n \in {o.res.status : o \in {x \in Outcomes(name) : x.kind = "response"}}}

\* what POST /api/mcp/tools is sent
ToolsBodies == [name : {<<>>, <<"q">>}, url : {<<>>, UrlA, UrlASlash, UrlB, UrlFtp}]

-----------------------------------------------------------------------------
(* POST /api/mcp/tools, README.md:963-995 *)

NoTimers == [listGet |-> "none", listRpc |-> "none"]

\* README.md:790-791  fetchTimed sets its timer before it calls fetch
setTimer(timers, d) ==
    IF d.state = "pending" /\ steps[d.step] # "listSdk"
    THEN [timers EXCEPT ![steps[d.step]] = "armed"] ELSE timers

\* README.md:963-985  the handler up to the await of listTools: the registry is
\* read for the saved name, and nothing is written
postToolsStart(m, body) ==
    LET url == normalizeServer(body.url)
        name == IF trim(body.name) # <<>> THEN trim(body.name)
                ELSE IF MapHas(m, url) THEN MapGet(m, url).name ELSE <<"MCP Server">>
        q == [phase |-> "returned", body |-> body, before |-> m,
              d |-> listToolsStart([name |-> name, url |-> url]), wait |-> "step", status |-> 0,
              timers |-> NoTimers, given |-> <<>>, res |-> Null]
    IN  IF url = <<>> THEN [q EXCEPT !.res = fail("url is required")]
        ELSE IF ~isHttp(url) THEN [q EXCEPT !.res = fail("Server URL must be http/https")]
        ELSE [q EXCEPT !.phase = "running"]

\* README.md:803-819, 821-834, 840-859  what listTools awaits has settled: the
\* SDK request, or the fetch of listGet or listRpc.  A response that is ok
\* leaves its body to be read.
postToolsSettle(q, outcome) ==
    LET name == steps[q.d.step]
        f == fetchTimed(outcome)
        cleared == [q.timers EXCEPT ![name] = f.timer]
        after(timers, o) ==
            LET d == listToolsStep(q.d, o)
            IN  [q EXCEPT !.d = d, !.timers = setTimer(timers, d), !.given = Append(@, o)]
    IN  IF name = "listSdk" THEN after(q.timers, outcome)
        ELSE IF f.settled.kind = "response" /\ resOk(f.settled.res)
        THEN [q EXCEPT !.wait = "body", !.status = f.settled.res.status, !.timers = cleared]
        ELSE after(cleared, f.settled)

\* README.md:835-837, 860-862  res.json() has settled
postToolsBody(q, payload) ==
    LET o == [kind |-> "response", res |-> [status |-> q.status, body |-> payload]]
        d == listToolsStep(q.d, o)
    IN  [q EXCEPT !.d = d, !.wait = "step", !.status = 0, !.timers = setTimer(@, d),
                  !.given = Append(@, o)]

\* README.md:986-992  listTools has returned or thrown
postToolsReturn(q) ==
    [q EXCEPT !.phase = "returned",
              !.res = IF q.d.state = "resolved" THEN ok([tools |-> q.d.item.tools])
                      ELSE fail(q.d.item.err)]

\* requests sent while a batch discovery is in flight
AggPostBodies == [name : {<<"s">>}, url : {UrlA, UrlCanon, UrlASlash2}]
AggDeleteBodies == [url : {UrlA, UrlCanon}]

\* tools whose key is asked for
KeyUrlX == UrlA \o <<"/", "x">>
KeyUrlXY == KeyUrlX \o <<":", ":", "y">>
KeyUrls == {<<>>, UrlA, UrlASlash, UrlASlash2, KeyUrlX, KeyUrlXY}
KeyNames == {<<>>, <<"z">>, <<"y", ":", ":", "z">>}
KeyTools == [mcp_server_url : KeyUrls, name : KeyNames, display_name : {<<>>, <<"Z">>}]

-----------------------------------------------------------------------------
(* The controller of the picker, components/mcp-service/state.ts (part_006) *)

\* the value undefined
Undefined == [undefined |-> TRUE]

\* a boolean held in toolLoadingByUrl
Flag(b) == [flag |-> b]

\* a message held in toolErrorByUrl
Text(message) == [text |-> message]

\* activeUrl is a string or null
Active(url) == [url |-> url]

\* Record<string, V>: o[k], { ...o, [k]: v }, delete o[k]
get(o, k) == IF k \in DOMAIN o THEN o[k] ELSE Undefined

put(o, k, v) == [x \in (DOMAIN o) \cup {k} |-> IF x = k THEN v ELSE o[x]]

del(o, k) == [x \in (DOMAIN o) \ {k} |-> o[x]]

\* cache[url] ?? []
toolsAt(cache, url) == IF url \in DOMAIN cache THEN cache[url] ELSE <<>>

\* part_006:46-48  log: the new item goes first; its ts is the reading of the
\* clock, which nothing reads back
log(c, level, message, serverUrl) ==
    [c EXCEPT !.logs = <<[level |-> level, message |-> message, serverUrl |-> serverUrl]>> \o @]

\* part_006:52  list.map((s) => ({ ...s, url: normalizeUrl(s.url) }))
normalizeList(list) ==
    [i \in 1..Len(list) |-> [name |-> list[i].name, url |-> normalizeUrlExport(list[i].url)]]

\* part_006:50-55  refreshServers once api.listServers() has answered
refreshServers(c, list) ==
    LET normalized == normalizeList(list)
    IN  [c EXCEPT !.servers = normalized,
                  !.activeUrl = IF @ # Null THEN @
                                ELSE IF normalized # <<>> THEN Active(normalized[1].url)
                                ELSE Null]

\* part_006:64
serverUrls(c) == {normalizeUrlExport(c.servers[i].url) : i \in 1..Len(c.servers)}

\* part_006:75-78  addServer once api.createServer has answered
addServerEnd(c, created) ==
    LET next == [name |-> created.name, url |-> normalizeUrlExport(created.url)]
    IN  log([c EXCEPT !.servers = Append(@, next), !.activeUrl = Active(next.url)],
            "info", <<"Server added: ">> \o next.name, next.url)

\* part_006:126  one selected key under the new URL
rekey(key, currentUrl, url) ==
    IF startsWith(key, currentUrl \o <<":", ":">>)
    THEN url \o SubSeq(key, Len(currentUrl) + 1, Len(key))
    ELSE key

\* updateServer without the setSelectedKeys of part_006:123-129
updateServerEndKeepKeys(c, currentUrl, updated) ==
    LET normalized == [name |-> updated.name, url |-> normalizeUrlExport(updated.url)]
        moved == [c EXCEPT
                    !.servers = [i \in 1..Len(@) |->
                                    IF normalizeUrlExport(@[i].url) = currentUrl
                                    THEN normalized ELSE @[i]],
                    !.activeUrl = IF @ = Active(currentUrl) THEN Active(normalized.url) ELSE @]
        rekeyed ==
          IF currentUrl # normalized.url
          THEN [moved EXCEPT
                !.toolsByUrl = del(put(@, normalized.url, toolsAt(@, currentUrl)), currentUrl),
                !.toolErrorByUrl = del(put(@, normalized.url, get(@, currentUrl)), currentUrl),
                !.toolLoadingByUrl = del(put(@, normalized.url, get(@, currentUrl)), currentUrl)]
          ELSE moved
    IN  log(rekeyed, "info", <<"Server updated: ">> \o normalized.name, normalized.url)

\* part_006:99-132  updateServer once api.updateServer has answered
updateServerEnd(c, currentUrl, updated) ==
    LET normalized == [name |-> updated.name, url |-> normalizeUrlExport(updated.url)]
        moved == [c EXCEPT
                    !.servers = [i \in 1..Len(@) |->
                                    IF normalizeUrlExport(@[i].url) = currentUrl
                                    THEN normalized ELSE @[i]],
                    !.activeUrl = IF @ = Active(currentUrl) THEN Active(normalized.url) ELSE @]
        rekeyed ==
          IF currentUrl # normalized.url
          THEN [moved EXCEPT
                !.toolsByUrl = del(put(@, normalized.url, toolsAt(@, currentUrl)), currentUrl),
                !.toolErrorByUrl = del(put(@, normalized.url, get(@, currentUrl)), currentUrl),
                !.toolLoadingByUrl = del(put(@, normalized.url, get(@, currentUrl)), currentUrl),
                !.selectedKeys = {rekey(key, currentUrl, normalized.url) : key \in @}]
          ELSE moved
    IN  log(rekeyed, "info", <<"Server updated: ">> \o normalized.name, normalized.url)

IsNotAt(server, url) == normalizeUrlExport(server.url) # url

\* part_006:141-173  removeServer once api.deleteServer has answered
removeServerEnd(c, currentUrl) ==
    LET nextServers == SelectSeq(c.servers, LAMBDA item : IsNotAt(item, currentUrl))
    IN  log([c EXCEPT
           !.servers = nextServers,
           !.activeUrl = IF @ # Active(currentUrl) THEN @
                         ELSE IF nextServers # <<>> /\ nextServers[1].url # <<>>
                         THEN Active(normalizeUrlExport(nextServers[1].url))
                         ELSE Null,
           !.toolsByUrl = del(@, currentUrl),
           !.toolErrorByUrl = del(@, currentUrl),
           !.toolLoadingByUrl = del(@, currentUrl),
           !.selectedKeys = {key \in @ : ~startsWith(key, currentUrl \o <<":", ":">>)}],
            "info", <<"Server deleted">>, currentUrl)

\* part_006:180-183  fetchTools up to its await
fetchToolsStart(c, url) ==
    log([c EXCEPT !.toolLoadingByUrl = put(@, url, Flag(TRUE)),
                  !.toolErrorByUrl = put(@, url, Undefined)],
        "info", <<"Fetching tools/list">>, url)

\* fetchTools writing a cache that holds its own URL only
fetchToolsEndOwnCache(c, url, res) ==
    IF res.ok
    THEN log([c EXCEPT !.toolsByUrl = put(<<>>, url, res.tools),
                       !.toolLoadingByUrl = put(@, url, Flag(FALSE))],
             "info", <<"Tools loaded: ", ToString(Len(res.tools))>>, url)
    ELSE log([c EXCEPT !.toolErrorByUrl = put(@, url, Text(res.message)),
                       !.toolsByUrl = put(<<>>, url, <<>>),
                       !.toolLoadingByUrl = put(@, url, Flag(FALSE))],
             "error", <<"tools/list failed: ", res.message>>, url)

\* fetchTools dropping an answer that arrives when the flag is already cleared
fetchToolsEndFirstWins(c, url, res) ==
    IF get(c.toolLoadingByUrl, url) # Flag(TRUE) THEN c
    ELSE IF res.ok
    THEN log([c EXCEPT !.toolsByUrl = put(@, url, res.tools),
                       !.toolLoadingByUrl = put(@, url, Flag(FALSE))],
             "info", <<"Tools loaded: ", ToString(Len(res.tools))>>, url)
    ELSE log([c EXCEPT !.toolErrorByUrl = put(@, url, Text(res.message)),
                       !.toolsByUrl = put(@, url, <<>>),
                       !.toolLoadingByUrl = put(@, url, Flag(FALSE))],
             "error", <<"tools/list failed: ", res.message>>, url)

\* part_006:184-197  fetchTools once api.listTools has answered or thrown
fetchToolsEnd(c, url, res) ==
    IF res.ok
    THEN log([c EXCEPT !.toolsByUrl = put(@, url, res.tools),
                       !.toolLoadingByUrl = put(@, url, Flag(FALSE))],
             "info", <<"Tools loaded: ", ToString(Len(res.tools))>>, url)
    ELSE log([c EXCEPT !.toolErrorByUrl = put(@, url, Text(res.message)),
                       !.toolsByUrl = put(@, url, <<>>),
                       !.toolLoadingByUrl = put(@, url, Flag(FALSE))],
             "error", <<"tools/list failed: ", res.message>>, url)

\* part_006:202-213
toggleTool(c, tool) ==
    LET key == createToolKey(tool).value
    IN  [c EXCEPT !.selectedKeys = IF key \in @ THEN @ \ {key} ELSE @ \cup {key}]

IsSelected(tool, keys) == createToolKey(tool).value \in keys

RECURSIVE selectedOf(_, _)
selectedOf(c, n) ==
    IF n = 0 THEN <<>>
    ELSE selectedOf(c, n - 1) \o
         SelectSeq(toolsAt(c.toolsByUrl, normalizeUrlExport(c.servers[n].url)),
                   LAMBDA tool : IsSelected(tool, c.selectedKeys))

\* part_006:219-231
selectedTools(c) == selectedOf(c, Len(c.servers))

\* README.md:963-995  what POST /api/mcp/tools answers for a server that lists
\* its tools, and api.ts: a failed request throws Error(body.message)
toolsListed(url, name) ==
    [ok |-> TRUE, message |-> "",
     tools |-> mapTools(Items, [name |-> name, url |-> normalizeServer(url)])]

\* the same server listing one tool only
toolsListedShort(url, name) ==
    [ok |-> TRUE, message |-> "",
     tools |-> mapTools(<<RawRead>>, [name |-> name, url |-> normalizeServer(url)])]

toolsFailed(message) == [ok |-> FALSE, message |-> message, tools |-> <<>>]

-----------------------------------------------------------------------------
(* Actions *)

NoRequest == [op |-> "none"]

Idle == [phase |-> "idle", result |-> Null]

NoQuery == [phase |-> "idle"]

NoKey == [none |-> TRUE]

\* the service as it starts
InitService ==
    /\ servers = <<>>
    /\ handled = NoRequest
    /\ call = Idle
    /\ disc = <<>>
    /\ query = NoQuery

\* no call of a client function under way
NoKeyCall == keyIn = NoKey /\ keyOut = NoKey

NoNormCall == normIn = <<>> /\ normOut = Null

NoCfgCall == cfgIn = <<>> /\ cfgOut = Null

NoCall == [op |-> "none"]

\* topology.tsx:504  a toolbox node without tools
EmptyToolbox == toolbox = <<>> /\ added = NoCall

\* part_006:38-43  the initial values of the useState hooks
NewController ==
    [servers |-> <<>>, toolsByUrl |-> <<>>, toolErrorByUrl |-> <<>>, toolLoadingByUrl |-> <<>>,
     selectedKeys |-> {}, activeUrl |-> Null, logs |-> <<>>]

InitController ==
    /\ controller = NewController
    /\ pending = {}
    /\ done = NoCall
    /\ calls = 0

InitClient == NoKeyCall /\ NoNormCall /\ NoCfgCall /\ EmptyToolbox /\ InitController

Init == InitService /\ InitClient

\* The handlers and the continuations of the awaits run to completion on one
\* event loop: the next one is taken up once the response of a finished
\* handler has been handed back.
Ready == handled = NoRequest /\ call.phase # "returned"

Add(body) ==
    LET r == PostServers(servers, body)
    IN  /\ Len(r.servers) <= MaxServers
        /\ servers' = r.servers
        /\ handled' = [op |-> "add", body |-> body, before |-> servers, res |-> r.res]
        /\ UNCHANGED <<call, disc, query, keyVars, clientVars>>

Update(body) ==
    LET r == PutServers(servers, body)
    IN  /\ servers' = r.servers
        /\ handled' = [op |-> "update", body |-> body, before |-> servers, res |-> r.res]
        /\ UNCHANGED <<call, disc, query, keyVars, clientVars>>

Remove(body) ==
    LET r == DeleteServers(servers, body)
    IN  /\ servers' = r.servers
        /\ handled' = [op |-> "remove", body |-> body, before |-> servers, res |-> r.res]
        /\ UNCHANGED <<call, disc, query, keyVars, clientVars>>

\* the response leaves the handler (return ok(...) / return fail(...))
Respond ==
    /\ handled # NoRequest
    /\ handled' = NoRequest
    /\ UNCHANGED <<servers, call, disc, query, keyVars, clientVars>>

\* README.md:1003-1017  the handler takes the list and starts listTools for
\* every server of it; each runs up to its first await.  Promise.all of no
\* promise resolves before another request is handled: the handler goes on
\* to its response at once.
StartAll ==
    /\ call.phase = "idle"
    /\ LET list == MapValues(servers)
           started == [i \in 1..Len(list) |-> listToolsStart(list[i])]
       IN  /\ call' = IF Len(list) = 0
                      THEN [phase |-> "returned",
                            result |-> ok(toolsAll(awaitAll(started).res, servers))]
                      ELSE [phase |-> "running", result |-> Null]
           /\ disc' = started
    /\ UNCHANGED <<servers, handled, query, keyVars, clientVars>>

\* the step one listTools call awaits settles
StepAll(i, outcome) ==
    /\ call.phase = "running"
    /\ disc[i].state = "pending"
    /\ disc' = [disc EXCEPT ![i] = listToolsStep(disc[i], outcome)]
    /\ UNCHANGED <<servers, handled, call, query, keyVars, clientVars>>

\* README.md:1007, 1019-1030  Promise.all resolves once every item is there
ReturnAll ==
    /\ call.phase = "running"
    /\ awaitAll(disc).ready
    /\ call' = [phase |-> "returned", result |-> ok(toolsAll(awaitAll(disc).res, servers))]
    /\ UNCHANGED <<servers, handled, disc, query, keyVars, clientVars>>

RespondAll ==
    /\ call.phase = "returned"
    /\ call' = Idle
    /\ disc' = <<>>
    /\ UNCHANGED <<servers, handled, query, keyVars, clientVars>>

\* the handler saving the server it has queried
PostToolsSaving(body) ==
    LET q == postToolsStart(servers, body)
    IN  /\ query.phase = "idle"
        /\ query' = q
        /\ servers' = IF q.phase = "running" THEN MapSet(servers, q.d.server.url, q.d.server)
                       ELSE servers
        /\ UNCHANGED <<handled, call, disc, keyVars, clientVars>>

\* README.md:963-985
PostTools(body) ==
    /\ query.phase = "idle"
    /\ query' = postToolsStart(servers, body)
    /\ UNCHANGED <<servers, handled, call, disc, keyVars, clientVars>>

SettleTools(outcome) ==
    /\ query.phase = "running" /\ query.d.state = "pending" /\ query.wait = "step"
    /\ query' = postToolsSettle(query, outcome)
    /\ UNCHANGED <<servers, handled, call, disc, keyVars, clientVars>>

ReadBody(payload) ==
    /\ query.phase = "running" /\ query.d.state = "pending" /\ query.wait = "body"
    /\ query' = postToolsBody(query, payload)
    /\ UNCHANGED <<servers, handled, call, disc, keyVars, clientVars>>

ReturnTools ==
    /\ query.phase = "running" /\ query.d.state # "pending"
    /\ query' = postToolsReturn(query)
    /\ UNCHANGED <<servers, handled, call, disc, keyVars, clientVars>>

\* the response leaves the handler
RespondTools ==
    /\ query.phase = "returned"
    /\ query' = NoQuery
    /\ UNCHANGED <<servers, handled, call, disc, keyVars, clientVars>>

SettlesOf(q) == IF steps[q.d.step] = "listSdk" THEN SdkOutcomes ELSE Fetched(steps[q.d.step])

\* one POST /api/mcp/tools at a time, the registry changing under it
NextTools ==
    \/ Ready /\ \E body \in AggPostBodies : Add(body)
    \/ Ready /\ \E body \in AggDeleteBodies : Remove(body)
    \/ Respond
    \/ Ready /\ \E body \in ToolsBodies : PostTools(body)
    \/ Ready /\ query.phase = "running" /\ \E outcome \in SettlesOf(query) : SettleTools(outcome)
    \/ Ready /\ \E payload \in Payloads : ReadBody(payload)
    \/ Ready /\ ReturnTools
    \/ RespondTools

SpecTools == Init /\ [][NextTools]_vars

\* the answers that make a step of a discovery succeed or fail
Brief(name) ==
    CASE name = "listSdk" -> SdkOutcomes
      [] name = "listGet" -> {o \in Fetched(name) : o.kind = "response" /\ ~resOk(o.res)}
      [] OTHER -> {o \in Fetched(name) : o.kind = "timeout" \/ (o.kind = "response" /\ resOk(o.res))}

BriefDone(o) ==
    IF o.kind = "response" /\ resOk(o.res)
    THEN [o EXCEPT !.res.body = [shape |-> "tools", items |-> Items]]
    ELSE fetchTimed(o).settled

\* both discovery requests in flight while the registry is written
NextDisc ==
    \/ Ready /\ \E body \in [name : {<<"s">>}, url : {UrlA, UrlB}] : Add(body)
    \/ Ready /\ Remove([url |-> UrlA])
    \/ Respond
    \/ Ready /\ \E body \in [name : {<<>>}, url : {UrlA, UrlB}] : PostTools(body)
    \/ Ready /\ query.phase = "running"
             /\ \E outcome \in Brief(steps[query.d.step]) : SettleTools(outcome)
    \/ Ready /\ ReadBody([shape |-> "tools", items |-> Items])
    \/ Ready /\ ReturnTools
    \/ RespondTools
    \/ Ready /\ StartAll
    \/ Ready /\ \E i \in 1..Len(disc) :
                   \E outcome \in Brief(steps[disc[i].step]) : StepAll(i, BriefDone(outcome))
    \/ Ready /\ ReturnAll
    \/ RespondAll

SpecDisc == Init /\ [][NextDisc]_vars

Next ==
    \/ Ready /\ \E body \in PostBodies : Add(body)
    \/ Ready /\ \E body \in PutBodies : Update(body)
    \/ Ready /\ \E body \in DeleteBodies : Remove(body)
    \/ Respond

Spec == Init /\ [][Next]_vars

NextAgg ==
    \/ Ready /\ \E body \in AggPostBodies : Add(body)
    \/ Ready /\ \E body \in AggDeleteBodies : Remove(body)
    \/ Respond
    \/ Ready /\ StartAll
    \/ Ready /\ \E i \in 1..Len(disc) :
                   \E outcome \in Outcomes(steps[disc[i].step]) : StepAll(i, outcome)
    \/ Ready /\ ReturnAll
    \/ RespondAll

SpecAgg == Init /\ [][NextAgg]_vars

\* the pure functions of export.ts, applied to every pair of tools
InitKey ==
    /\ InitService
    /\ keyIn \in [a : KeyTools, b : KeyTools]
    /\ keyOut = NoKey
    /\ NoNormCall
    /\ NoCfgCall
    /\ EmptyToolbox
    /\ InitController

ApplyToolKey ==
    /\ keyOut = NoKey
    /\ keyOut' = [a |-> createToolKey(keyIn.a), b |-> createToolKey(keyIn.b)]
    /\ UNCHANGED <<svcVars, keyIn, clientVars>>

NextKey == ApplyToolKey

SpecKey == InitKey /\ [][NextKey]_vars

-----------------------------------------------------------------------------
(* The normalizers applied to a string: export.ts:29-35, README.md:659-678 *)

\* strings over the characters the normalizers look at, up to this length
MaxNormLen == 3

NormAlphabet == {SP, "'", "\"", "/", "a"}

NormStrings == UNION {[1..n -> NormAlphabet] : n \in 0..MaxNormLen}

\* the URL of the test of normalizeUrl, service/mcp.test.ts:3-7
UrlExample == <<"https", ":", "/", "/", "example.com">>

NormUrls ==
    RawUrls \cup {UrlExample, UrlExample \o <<"/">>, UrlAlias \o <<"/">>, UrlAlias \o <<"/", "/">>,
                  <<"\"", "'">> \o UrlA \o <<"'", "\"">>}

NormInputs == NormStrings \cup NormUrls

InitNorm ==
    /\ InitService
    /\ NoKeyCall
    /\ normIn \in NormInputs
    /\ normOut = Null
    /\ NoCfgCall
    /\ EmptyToolbox
    /\ InitController

ApplyNormalize ==
    /\ normOut = Null
    /\ normOut' =
          [export |-> normalizeUrlExport(normIn),
           exportTwice |-> normalizeUrlExport(normalizeUrlExport(normIn)),
           url |-> normalizeUrl(normIn),
           urlTwice |-> normalizeUrl(normalizeUrl(normIn)),
           server |-> normalizeServer(normIn),
           serverTwice |-> normalizeServer(normalizeServer(normIn))]
    /\ UNCHANGED <<svcVars, keyVars, normIn, cfgVars, boxVars, ctlVars>>

NextNorm == ApplyNormalize

SpecNorm == InitNorm /\ [][NextNorm]_vars

-----------------------------------------------------------------------------
(* createConfig applied to a list of tools *)

\* the lists handed to createConfig have at most this many tools
MaxTools == 2

CfgUrls == {<<>>, <<"/">>, UrlA, UrlASlash}

CfgNames == {<<>>, <<"y">>, <<"y", ":", ":", "z">>}

CfgServerNames == {<<"s">>, <<"z", ":", ":", "s">>}

CfgTools ==
    [name : CfgNames, display_name : {<<>>, <<"Y">>},
     mcp_server_name : CfgServerNames, mcp_server_url : CfgUrls]

CfgLists == UNION {[1..n -> CfgTools] : n \in 0..MaxTools}

InitCfg ==
    /\ InitService
    /\ NoKeyCall
    /\ NoNormCall
    /\ cfgIn \in CfgLists
    /\ cfgOut = Null
    /\ EmptyToolbox
    /\ InitController

ApplyCreateConfig ==
    /\ cfgOut = Null
    /\ cfgOut' = createConfig(cfgIn)
    /\ UNCHANGED <<svcVars, keyVars, normVars, cfgIn, boxVars, ctlVars>>

NextCfg == ApplyCreateConfig

SpecCfg == InitCfg /\ [][NextCfg]_vars

-----------------------------------------------------------------------------
(* The adapter from tools to toolbox items, adapters/mcp-adapter (part_005) *)

\* part_005:18-20  `${tool.mcp_server_url}::${tool.name}`
createToolId(tool) == tool.mcp_server_url \o <<":", ":">> \o tool.name

\* part_005:58-70  (icon, description and input_schema are left out)
adaptMcpTool(tool) ==
    [id |-> createToolId(tool),
     name |-> IF tool.display_name # <<>> THEN tool.display_name ELSE tool.name,
     status |-> "active",
     source |-> tool.mcp_server_name,
     mcp_server_name |-> tool.mcp_server_name,
     mcp_server_url |-> tool.mcp_server_url]

\* part_005:75-89  maxToolsPerNode = 0 stands for an option that is not given
adaptMcpToolsToTopology(tools, maxToolsPerNode) ==
    LET adapted == [i \in 1..Len(tools) |-> adaptMcpTool(tools[i])]
    IN  IF maxToolsPerNode # 0 /\ Len(adapted) > maxToolsPerNode
        THEN SubSeq(adapted, 1, maxToolsPerNode)
        ELSE adapted

\* part_005:144-148  an existing item in the format of the adapter
existingAsMcp(tool) ==
    [id |-> tool.id, name |-> tool.name, status |-> tool.status, source |-> tool.source,
     mcp_server_name |-> Undefined, mcp_server_url |-> Undefined]

RECURSIVE setAll(_, _)
\* part_005:153-159  for (const tool of ...) toolMap.set(tool.id, tool)
setAll(toolMap, tools) ==
    IF tools = <<>> THEN toolMap
    ELSE setAll(MapSet(toolMap, Head(tools).id, Head(tools)), Tail(tools))

\* part_005:136-162
mergeWithMcpTools(existingTools, mcpTools, maxToolsPerNode) ==
    LET adaptedMcpTools == adaptMcpToolsToTopology(mcpTools, maxToolsPerNode)
        existing == [i \in 1..Len(existingTools) |-> existingAsMcp(existingTools[i])]
    IN  MapValues(setAll(setAll(<<>>, existing), adaptedMcpTools))

-----------------------------------------------------------------------------
(* Tools written back into a toolbox node *)

\* a batch handed to addTools has at most this many tools
MaxBatch == 2

\* the toolbox node holds at most this many items
MaxItems == 4

ToolRead == [name |-> <<"read">>, display_name |-> <<>>, mcp_server_name |-> <<"s">>,
             mcp_server_url |-> UrlA]
ToolReadSlash == [name |-> <<"read">>, display_name |-> <<"Read">>, mcp_server_name |-> <<"s">>,
                  mcp_server_url |-> UrlASlash]
ToolWrite == [name |-> <<"write">>, display_name |-> <<>>, mcp_server_name |-> <<"s">>,
              mcp_server_url |-> UrlA]
ToolReadB == [name |-> <<"read">>, display_name |-> <<>>, mcp_server_name |-> <<"t">>,
              mcp_server_url |-> UrlB]
ToolNameless == [name |-> <<>>, display_name |-> <<"x">>, mcp_server_name |-> <<"s">>,
                 mcp_server_url |-> UrlA]

BoxTools == {ToolRead, ToolReadSlash, ToolWrite, ToolReadB, ToolNameless}

Batches == UNION {[1..n -> BoxTools] : n \in 0..MaxBatch}

\* an item that was in the node data before any write-back
PresetItem == [id |-> <<"tool-1">>, name |-> <<"preset">>, source |-> <<"builtin">>,
               status |-> "active"]

InitBox ==
    /\ InitService
    /\ NoKeyCall /\ NoNormCall /\ NoCfgCall
    /\ toolbox \in {<<>>, <<PresetItem>>}
    /\ added = NoCall
    /\ InitController

\* addTools leaving the selection of the controller as it is
AddToolsKeepSelection(tools) ==
    LET r == addTools(toolbox, tools)
    IN  /\ added = NoCall
        /\ Len(r.tools) <= MaxItems
        /\ toolbox' = IF r.threw THEN toolbox ELSE r.tools
        /\ added' = [op |-> "addTools", tools |-> tools, before |-> toolbox, threw |-> r.threw]
        /\ UNCHANGED <<svcVars, keyVars, normVars, cfgVars, ctlVars>>

\* topology.tsx:502-530  addTools: the updater runs on the node data (when
\* createToolKey throws in it the node keeps its data), the selection of the
\* controller is cleared
AddTools(tools) ==
    LET r == addTools(toolbox, tools)
    IN  /\ added = NoCall
        /\ Len(r.tools) <= MaxItems
        /\ toolbox' = IF r.threw THEN toolbox ELSE r.tools
        /\ added' = [op |-> "addTools", tools |-> tools, before |-> toolbox, threw |-> r.threw]
        /\ controller' = [controller EXCEPT !.selectedKeys = {}]
        /\ UNCHANGED <<svcVars, keyVars, normVars, cfgVars, pending, done, calls>>

\* the node is rendered with its new data
RenderBox ==
    /\ added # NoCall
    /\ added' = NoCall
    /\ UNCHANGED <<svcVars, keyVars, normVars, cfgVars, toolbox, ctlVars>>

NextBox ==
    \/ \E tools \in Batches : AddTools(tools)
    \/ RenderBox

SpecBox == InitBox /\ [][NextBox]_vars

\* part_005:136-162  the tools of the node are merged with tools of the servers
MergeTools(tools, maxToolsPerNode) ==
    LET merged == mergeWithMcpTools(toolbox, tools, maxToolsPerNode)
    IN  /\ added = NoCall
        /\ Len(merged) <= MaxItems
        /\ toolbox' = merged
        /\ added' = [op |-> "mergeWithMcpTools", tools |-> tools, before |-> toolbox,
                     threw |-> FALSE, maxToolsPerNode |-> maxToolsPerNode]
        /\ UNCHANGED <<svcVars, keyVars, normVars, cfgVars, ctlVars>>

\* the two ways tools are written into a toolbox node
NextPaths ==
    \/ \E tools \in Batches : AddTools(tools)
    \/ \E tools \in Batches, maxToolsPerNode \in 0..MaxBatch : MergeTools(tools, maxToolsPerNode)
    \/ RenderBox

SpecPaths == InitBox /\ [][NextPaths]_vars

-----------------------------------------------------------------------------
(* The controller in front of the registry *)

\* the controller is called at most this many times
MaxCalls == 4

CtlUrls == {UrlA, UrlASlash, UrlB}

CtlNames == {<<"s">>}

\* what the forms of the picker hand to addServer and to updateServer
CtlServers == {[name |-> n, url |-> u] : n \in CtlNames, u \in CtlUrls}

\* the registry as the picker finds it when it is mounted
CtlRegistries ==
    LET a == [name |-> <<"s">>, url |-> UrlA]
        b == [name |-> <<"s">>, url |-> UrlB]
    IN  {<<>>, MapSet(<<>>, UrlA, a), MapSet(MapSet(<<>>, UrlA, a), UrlB, b)}

NoResponse == [none |-> TRUE]

\* part_006:57-62  the effect has loaded the servers of the registry
InitCtl ==
    /\ servers \in CtlRegistries
    /\ handled = NoRequest /\ call = Idle /\ disc = <<>> /\ query = NoQuery
    /\ NoKeyCall /\ NoNormCall /\ NoCfgCall /\ EmptyToolbox
    /\ controller = refreshServers(NewController, MapValues(servers))
    /\ pending = {}
    /\ done = NoCall
    /\ calls = 0

CanCall == done = NoCall /\ calls < MaxCalls

\* tells apart two calls with the same arguments that wait at the same time
FreeId(op, body) ==
    CHOOSE n \in 0..MaxCalls :
       /\ \A p \in pending : p.op = op /\ p.body = body => p.id # n
       /\ \A m \in 0..(n - 1) : \E p \in pending : p.op = op /\ p.body = body /\ p.id = m

Others == <<handled, call, disc, query, keyVars, normVars, cfgVars, boxVars>>

\* part_006:66-74  addServer up to its await
AddServer(server) ==
    LET url == normalizeUrlExport(server.url)
        payload == [name |-> trim(server.name), url |-> url]
    IN  /\ CanCall
        /\ calls' = calls + 1
        /\ IF url \in serverUrls(controller)
           THEN /\ done' = [op |-> "addServer", url |-> url, before |-> controller,
                            threw |-> TRUE, message |-> "MCP server URL must be unique"]
                /\ UNCHANGED pending
           ELSE /\ pending' = pending \cup {[id |-> FreeId("addServer", payload), op |-> "addServer",
                                             url |-> url, body |-> payload,
                                             res |-> NoResponse]}
                /\ UNCHANGED done
        /\ UNCHANGED <<servers, controller, Others>>

\* part_006:83-98  updateServer up to its await
UpdateServer(url, next) ==
    LET currentUrl == normalizeUrlExport(url)
        nextUrl == normalizeUrlExport(next.url)
        body == [url |-> currentUrl, nextUrl |-> nextUrl, name |-> next.name]
    IN  /\ CanCall
        /\ calls' = calls + 1
        /\ IF currentUrl # nextUrl /\ nextUrl \in serverUrls(controller)
           THEN /\ done' = [op |-> "updateServer", url |-> currentUrl, before |-> controller,
                            threw |-> TRUE, message |-> "MCP server URL must be unique"]
                /\ UNCHANGED pending
           ELSE /\ pending' = pending \cup
                       {[id |-> FreeId("updateServer", body), op |-> "updateServer",
                         url |-> currentUrl, body |-> body, res |-> NoResponse]}
                /\ UNCHANGED done
        /\ UNCHANGED <<servers, controller, Others>>

\* part_006:137-140  removeServer up to its await
RemoveServer(url) ==
    LET currentUrl == normalizeUrlExport(url)
        body == [url |-> currentUrl]
    IN  /\ CanCall
        /\ calls' = calls + 1
        /\ pending' = pending \cup {[id |-> FreeId("removeServer", body), op |-> "removeServer",
                                     url |-> currentUrl, body |-> body, res |-> NoResponse]}
        /\ UNCHANGED <<servers, controller, done, Others>>

\* part_006:50-51  refreshServers up to its await
RefreshServers ==
    LET body == [list |-> TRUE]
    IN  /\ CanCall
        /\ calls' = calls + 1
        /\ pending' = pending \cup {[id |-> FreeId("refreshServers", body), op |-> "refreshServers",
                                     url |-> <<>>, body |-> body, res |-> NoResponse]}
        /\ UNCHANGED <<servers, controller, done, Others>>

\* README.md:879-961  the registry handles the request of a pending call
Serve(p) ==
    LET r == CASE p.op = "refreshServers" -> GetServers(servers)
               [] p.op = "addServer" -> PostServers(servers, p.body)
               [] p.op = "updateServer" -> PutServers(servers, p.body)
               [] p.op = "removeServer" -> DeleteServers(servers, p.body)
    IN  /\ done = NoCall
        /\ p.op # "fetchTools"
        /\ p.res = NoResponse
        /\ servers' = r.servers
        /\ pending' = (pending \ {p}) \cup {[p EXCEPT !.res = r.res]}
        /\ UNCHANGED <<controller, done, calls, Others>>

\* the lines after the await run whatever the backend has answered
SettleAnyway(p) ==
    /\ done = NoCall
    /\ p.op # "fetchTools"
    /\ p.res # NoResponse
    /\ pending' = pending \ {p}
    /\ done' = [op |-> p.op, url |-> p.url, before |-> controller,
                threw |-> ~p.res.ok, message |-> p.res.message, res |-> p.res]
    /\ controller' =
          CASE p.op = "refreshServers" -> refreshServers(controller, p.res.data)
            [] p.op = "addServer" -> addServerEnd(controller, p.body)
            [] p.op = "updateServer" ->
                   updateServerEnd(controller, p.url, [name |-> p.body.name, url |-> p.body.nextUrl])
            [] p.op = "removeServer" -> removeServerEnd(controller, p.url)
    /\ UNCHANGED <<servers, calls, Others>>

\* api.ts: a response that is not ok is thrown as Error(body.message); the
\* call that awaited it takes up what part_006 does after its await
Settle(p) ==
    /\ done = NoCall
    /\ p.op # "fetchTools"
    /\ p.res # NoResponse
    /\ pending' = pending \ {p}
    /\ done' = [op |-> p.op, url |-> p.url, before |-> controller,
                threw |-> ~p.res.ok, message |-> p.res.message, res |-> p.res]
    /\ controller' =
          IF ~p.res.ok THEN controller
          ELSE CASE p.op = "refreshServers" -> refreshServers(controller, p.res.data)
                 [] p.op = "addServer" -> addServerEnd(controller, p.res.data)
                 [] p.op = "updateServer" -> updateServerEnd(controller, p.url, p.res.data)
                 [] p.op = "removeServer" -> removeServerEnd(controller, p.url)
    /\ UNCHANGED <<servers, calls, Others>>

\* part_006:178-185  fetchTools up to its await
FetchTools(server) ==
    LET url == normalizeUrlExport(server.url)
        body == [url |-> url, name |-> server.name]
        overlapped(p) == IF p.op = "fetchTools" /\ p.url = url
                         THEN [p EXCEPT !.res = [alone |-> FALSE]] ELSE p
    IN  /\ CanCall
        /\ calls' = calls + 1
        /\ controller' = fetchToolsStart(controller, url)
        /\ pending' = {overlapped(p) : p \in pending} \cup
                          {[id |-> FreeId("fetchTools", body), op |-> "fetchTools",
                            url |-> url, body |-> body,
                            res |-> [alone |-> \A p \in pending :
                                                 ~(p.op = "fetchTools" /\ p.url = url)]]}
        /\ UNCHANGED <<servers, done, Others>>

\* part_006:185-197  api.listTools has answered or thrown
FetchToolsEnd(p, res) ==
    /\ done = NoCall
    /\ p.op = "fetchTools"
    /\ pending' = pending \ {p}
    /\ controller' = fetchToolsEnd(controller, p.url, res)
    /\ done' = [op |-> "fetchTools", url |-> p.url, before |-> controller,
                threw |-> ~res.ok, message |-> res.message, res |-> res,
                alone |-> p.res.alone, id |-> p.id]
    /\ UNCHANGED <<servers, calls, Others>>

\* part_006:202-213  a tool of a list on display is clicked
ToggleTool(tool) ==
    /\ CanCall
    /\ calls' = calls + 1
    /\ controller' = toggleTool(controller, tool)
    /\ UNCHANGED <<servers, pending, done, Others>>

\* the caller has seen how the call ended
Resume ==
    /\ done # NoCall
    /\ done' = NoCall
    /\ UNCHANGED <<servers, controller, pending, calls, Others>>

CachedTools == UNION {{controller.toolsByUrl[u][i] : i \in 1..Len(controller.toolsByUrl[u])} :
                        u \in DOMAIN controller.toolsByUrl}

ShownServers == {controller.servers[i] : i \in 1..Len(controller.servers)}

NextCtl ==
    \/ \E server \in CtlServers : AddServer(server)
    \/ \E shown \in ShownServers, next \in CtlServers : UpdateServer(shown.url, next)
    \/ \E shown \in ShownServers : RemoveServer(shown.url)
    \/ \E shown \in ShownServers : FetchTools(shown)
    \/ \E p \in pending : Serve(p)
    \/ \E p \in pending : Settle(p)
    \/ \E p \in {q \in pending : q.op = "fetchTools"} :
          \E res \in {toolsListed(p.body.url, p.body.name), toolsFailed("tools/list failed")} :
             FetchToolsEnd(p, res)
    \/ \E tool \in CachedTools : ToggleTool(tool)
    \/ Resume

SpecCtl == InitCtl /\ [][NextCtl]_vars

\* the calls that write servers and activeUrl, several of them awaiting
NextActive ==
    \/ RefreshServers
    \/ \E server \in CtlServers : AddServer(server)
    \/ \E shown \in ShownServers, next \in CtlServers : UpdateServer(shown.url, next)
    \/ \E shown \in ShownServers : RemoveServer(shown.url)
    \/ \E p \in pending : Serve(p)
    \/ \E p \in pending : Settle(p)
    \/ Resume

SpecActive == InitCtl /\ [][NextActive]_vars

\* what api.listTools can give a call: the tools of the server, fewer tools
\* when the server has changed in between, or a failure
FetchAnswers(p) ==
    {toolsListed(p.body.url, p.body.name), toolsListedShort(p.body.url, p.body.name),
     toolsFailed("tools/list failed")}

\* fetchTools calls only, several of them in flight
NextFetch ==
    \/ \E shown \in ShownServers : FetchTools(shown)
    \/ \E p \in {q \in pending : q.op = "fetchTools"} :
          \E res \in FetchAnswers(p) : FetchToolsEnd(p, res)
    \/ Resume

SpecFetch == InitCtl /\ [][NextFetch]_vars

-----------------------------------------------------------------------------
(* From the picker to the toolbox node *)

UrlTools == <<"https", ":", "/", "/", "tools.example.com", "/">>
UrlLangchain == <<"https", ":", "/", "/", "tools.langchain.com">>

PickerServers == {[name |-> <<"s">>, url |-> UrlTools], [name |-> <<"s">>, url |-> UrlLangchain]}

\* provider.ts:8-63  the provider of the demo: three tools for every server
\* but the one of tools.langchain.com, each with the name of the server and
\* its normalized url (the host is one atom of the url)
listToolsProvider(server) ==
    LET url == normalizeUrlExport(server.url)
        common(name) == [name |-> name, display_name |-> name,
                         mcp_server_name |-> server.name, mcp_server_url |-> url]
    IN  IF \E i \in 1..Len(url) : url[i] = "tools.langchain.com"
        THEN toolsFailed("tools/list not found (404)")
        ELSE [ok |-> TRUE, message |-> "",
              tools |-> <<common(<<"read_url_content">>), common(<<"extract_images_from_url">>),
                          common(<<"search_web">>)>>]

\* part_006:38-43, 57-62  the picker is mounted on an empty registry
InitPicker ==
    /\ servers = <<>>
    /\ handled = NoRequest /\ call = Idle /\ disc = <<>> /\ query = NoQuery
    /\ NoKeyCall /\ NoNormCall /\ NoCfgCall /\ EmptyToolbox
    /\ controller = refreshServers(NewController, <<>>)
    /\ pending = {}
    /\ done = NoCall
    /\ calls = 0

\* picker.tsx:91-98  add: nothing without a config, else the selection goes
\* to addTools of the toolbox node
PickerAdd ==
    /\ done = NoCall
    /\ createConfig(selectedTools(controller)).ok
    /\ AddTools(selectedTools(controller))

\* the dialog is closed by addTools (topology.tsx:528): the controller is
\* used again once the node has been rendered
Rendered == added = NoCall

NextPicker ==
    \/ Rendered /\ \E server \in PickerServers : AddServer(server)
    \/ Rendered /\ \E p \in pending : Serve(p)
    \/ Rendered /\ \E p \in pending : Settle(p)
    \/ Rendered /\ \E shown \in ShownServers : FetchTools(shown)
    \/ Rendered /\ \E p \in {q \in pending : q.op = "fetchTools"} :
                      FetchToolsEnd(p, listToolsProvider(p.body))
    \/ Rendered /\ \E tool \in CachedTools : ToggleTool(tool)
    \/ PickerAdd
    \/ RenderBox
    \/ Resume

SpecPicker == InitPicker /\ [][NextPicker]_vars

-----------------------------------------------------------------------------
(* Properties *)

Failed(d) == d.state = "rejected"

NumFailed == Cardinality({i \in 1..Len(disc) : Failed(disc[i])})

NumErrors(result) == IF result.errors = Null THEN 0 ELSE Len(result.errors.items)

\* C1: when GET /tools/all has answered for n registered servers of which k
\* failed discovery (every step failed), the answer is a success, its errors
\* have exactly k entries and its serverCount is n, whatever the message of the
\* error a failing server ended with.
C1_ErrorsCountFailures ==
    call.phase = "returned" =>
        /\ call.result.ok
        /\ NumErrors(call.result.data) = NumFailed
        /\ (MapValues(servers) = [i \in 1..Len(disc) |-> disc[i].server]
                => call.result.data.serverCount = Len(disc))

\* C2: every stored record sits under the key equal to its url, has a non-empty
\* name, and no two stored records have urls that normalize to the same string.
C2_RegistryInvariant ==
    /\ \A i \in 1..Len(servers) :
          /\ servers[i].key = servers[i].value.url
          /\ servers[i].value.name # <<>>
    /\ \A i, j \in 1..Len(servers) :
          i # j => normalizeServer(servers[i].value.url) # normalizeServer(servers[j].value.url)

OnlyTrailingSlash(u, v) == u = v \o <<"/">> \/ v = u \o <<"/">>

\* C3: add of a record fails with Conflict and leaves the registry unchanged
\* whenever the normalized url is already a key; in particular the add of a URL
\* fails when a URL that differs from it only by a trailing slash was added
\* before (the alias form /server/<name> of a stored URL normalizes to the
\* stored key, so the first part covers it).
C3_AddConflict ==
    handled.op = "add" /\ trim(handled.body.name) # <<>> =>
        LET u == handled.body.url
            Added(v) == MapHas(handled.before, normalizeServer(v))
        IN  (Added(u) \/ \E v \in RawUrls : Added(v) /\ OnlyTrailingSlash(u, v)) =>
                /\ ErrorKind(handled.res) = "Conflict"
                /\ servers = handled.before

SameButFor(m, n, keys) ==
    \A k \in (MapKeys(m) \cup MapKeys(n)) \ keys :
        MapHas(m, k) /\ MapHas(n, k) /\ MapGet(m, k) = MapGet(n, k)

\* C4: a successful update whose new url normalizes to another key leaves the
\* old key absent (an update or a remove on the old key then answers NotFound),
\* the new key resolving to the updated record, the number of records
\* unchanged and the other records untouched, with no state in between.
C4_UpdateMigrates ==
    handled.op = "update" /\ handled.res.ok
                          /\ handled.res.data.url # normalizeServer(handled.body.url) =>
        LET old == normalizeServer(handled.body.url)
            new == handled.res.data.url
        IN  /\ ~MapHas(servers, old)
            /\ ErrorKind(PutServers(servers, [url |-> old, nextUrl |-> <<>>, name |-> <<>>]).res)
                  = "NotFound"
            /\ ErrorKind(DeleteServers(servers, [url |-> old]).res) = "NotFound"
            /\ MapHas(servers, new) /\ MapGet(servers, new) = handled.res.data
            /\ new = normalizeServer(handled.body.nextUrl)
            /\ Len(servers) = Len(handled.before)
            /\ SameButFor(servers, handled.before, {old, new})

updateUrl == normalizeServer(handled.body.url)

updateNext == normalizeServer(handled.body.nextUrl)

updateFinal == IF updateNext # <<>> THEN updateNext ELSE updateUrl

FailsWith(kind) == ErrorKind(handled.res) = kind /\ servers = handled.before

\* C5 as stated: update fails with NotFound when the current url has no record,
\* with Conflict when the new url normalizes to a different key that is
\* occupied, with InvalidInput when the resulting url is not http/https, and
\* each of the three failures leaves the registry as it was.
C5_UpdateFailures ==
    handled.op = "update" =>
        /\ ~MapHas(handled.before, updateUrl) => FailsWith("NotFound")
        /\ updateFinal # updateUrl /\ MapHas(handled.before, updateFinal) => FailsWith("Conflict")
        /\ ~isHttp(updateFinal) => FailsWith("InvalidInput")

\* C5 amended: the failures of update are tried in this order, the first that
\* applies decides, and each leaves the registry as it was: InvalidInput when
\* the current url is empty after normalization, NotFound when it has no
\* record, InvalidInput when the resulting url is not http/https, Conflict
\* when the new url normalizes to a different key that is occupied.
C5_UpdateFailuresInOrder ==
    handled.op = "update" =>
        IF updateUrl = <<>> THEN FailsWith("InvalidInput")
        ELSE IF ~MapHas(handled.before, updateUrl) THEN FailsWith("NotFound")
        ELSE IF ~isHttp(updateFinal) THEN FailsWith("InvalidInput")
        ELSE IF updateFinal # updateUrl /\ MapHas(handled.before, updateFinal)
        THEN FailsWith("Conflict")
        ELSE handled.res.ok

C5_Witness ==
    /\ handled.op = "update"
    /\ ErrorKind(handled.res) = "Conflict"
    /\ Len(handled.before) = 2
    /\ updateUrl # <<>> /\ updateFinal # updateUrl

\* C6: remove looks the URL up through the normalizer add stores under: when
\* the record add keeps for the string u is there, remove(u) succeeds and
\* deletes that record; when the URL has no record, remove fails with NotFound
\* and changes nothing.
C6_RemoveSameNormalizer ==
    handled.op = "remove" =>
        LET key == normalizeServer(handled.body.url)
        IN  IF MapHas(handled.before, key)
            THEN handled.res.ok /\ servers = MapDelete(handled.before, key)
            ELSE key # <<>> => ErrorKind(handled.res) = "NotFound" /\ servers = handled.before

Prefix(s, t) == Len(s) <= Len(t) /\ s = SubSeq(t, 1, Len(s))

AllFailed(results) == \A j \in 1..Len(results) : ~results[j].ok

\* C7: listTools tries listSdk, listGet, listRpc in this order, one at a time: a
\* step is begun only when every earlier one has failed, the tools returned
\* are those of the first step that succeeded, and no step is begun after it.
C7_StrategiesInOrder ==
    \A i \in 1..Len(disc) :
        LET d == disc[i]
        IN  /\ Prefix(d.started, steps)
            /\ d.state = "pending" =>
                  /\ Len(d.results) = Len(d.started) - 1
                  /\ AllFailed(d.results)
            /\ d.state = "resolved" =>
                  /\ Len(d.results) = Len(d.started)
                  /\ AllFailed(SubSeq(d.results, 1, Len(d.results) - 1))
                  /\ d.results[Len(d.results)].ok
                  /\ d.item.tools = d.results[Len(d.results)].tools
                  /\ d.item.err = ""
            /\ d.state = "rejected" =>
                  /\ d.started = steps
                  /\ Len(d.results) = Len(steps)
                  /\ AllFailed(d.results)

C7_Witness ==
    \E i \in 1..Len(disc) :
        /\ disc[i].state = "resolved"
        /\ disc[i].started = <<"listSdk", "listGet">>
        /\ disc[i].item.tools # <<>>

\* C8: when all three steps have failed, listTools fails with the message of
\* the error of the last step, listRpc, not with that of an earlier step.
C8_LastErrorSurfaces ==
    \A i \in 1..Len(disc) :
        Failed(disc[i]) =>
            /\ Len(disc[i].results) = 3
            /\ disc[i].item.err = disc[i].results[3].error.message
            /\ disc[i].item.tools = <<>>

C8_Witness ==
    \E i \in 1..Len(disc) :
        /\ Failed(disc[i])
        /\ disc[i].item.err = "HTTP 500"
        /\ disc[i].results[1].error.message = "sdk failed"
        /\ disc[i].results[2].error.message = "HTTP 404"

InvalidInput(out) == ~out.ok /\ out.error \in {"tool.mcp_server_url is required", "tool.name is required"}

\* C9: createToolKey fails with InvalidInput when mcp_server_url or name is
\* empty and otherwise returns the normalized url, "::" and the name, so that
\* two tools of one name whose URLs differ only by a trailing slash get the
\* same key, and display_name does not enter the key.
C9_ToolKey ==
    keyOut # NoKey =>
        LET a == keyIn.a
            b == keyIn.b
            Right(t, out) ==
                IF t.mcp_server_url = <<>> \/ t.name = <<>> THEN InvalidInput(out)
                ELSE out.ok /\ out.value = normalizeUrlExport(t.mcp_server_url) \o <<":", ":">> \o t.name
        IN  /\ Right(a, keyOut.a) /\ Right(b, keyOut.b)
            /\ a.name = b.name /\ a.name # <<>> /\ a.mcp_server_url # <<>> /\ b.mcp_server_url # <<>>
                 /\ OnlyTrailingSlash(a.mcp_server_url, b.mcp_server_url) => keyOut.a = keyOut.b
            /\ a.name = b.name /\ a.mcp_server_url = b.mcp_server_url => keyOut.a = keyOut.b

\* C10: createToolKey is injective on (normalized url, name): two tools with
\* non-empty url and name and equal keys have the same normalized url and
\* the same name, also when a name or a URL holds the separator "::".
C10_ToolKeyInjective ==
    keyOut # NoKey /\ keyOut.a.ok /\ keyOut.b.ok /\ keyOut.a.value = keyOut.b.value =>
        /\ normalizeUrlExport(keyIn.a.mcp_server_url) = normalizeUrlExport(keyIn.b.mcp_server_url)
        /\ keyIn.a.name = keyIn.b.name

\* C11: normalization is idempotent: applying a normalizer to its own result
\* gives that result again, for every string, for normalizeUrl of export.ts and
\* for normalizeUrl and normalizeServer of the service, also with several
\* trailing slashes and with nested quotes.
C11_NormalizeIdempotent ==
    normOut # Null =>
        /\ normOut.exportTwice = normOut.export
        /\ normOut.urlTwice = normOut.url
        /\ normOut.serverTwice = normOut.server

Wrapped(x) == \E q \in Quotes : startsWith(x, <<q>>) /\ endsWith(x, <<q>>)

\* C12: normalizeUrl strips exactly one trailing "/": for an input that ends in
\* "/" the result followed by "/" is the input, an input that does not end in
\* "/" is returned as it is (the normalizeUrl of the service does the same on
\* a string without surrounding blanks or quotes).
C12_StripsOneSlash ==
    normOut # Null =>
        LET Stripped(r) == IF endsWith(normIn, <<"/">>) THEN r \o <<"/">> = normIn ELSE r = normIn
        IN  /\ Stripped(normOut.export)
            /\ (trim(normIn) = normIn /\ ~Wrapped(normIn)) => Stripped(normOut.url)

C12_Witness ==
    /\ normIn = UrlExample \o <<"/">>
    /\ normOut # Null
    /\ normOut.export = UrlExample
    /\ normOut.url = UrlExample

\* a tool createConfig takes: a name, and a url that is not empty once normalized
ValidTool(t) == t.name # <<>> /\ normalizeUrlExport(t.mcp_server_url) # <<>>

ConfigTriple(t) == <<normalizeUrlExport(t.mcp_server_url), t.name, t.mcp_server_name>>

\* C13: for a list of valid tools createConfig returns an interrupt_config
\* whose values are all true and whose keys are exactly the keys normalized
\* url "::" name "::" server name of the tools, one per tool: for tools with
\* pairwise distinct (normalized url, name, server name) there are as many
\* keys as tools.
C13_InterruptConfig ==
    cfgOut # Null /\ (\A i \in 1..Len(cfgIn) : ValidTool(cfgIn[i])) =>
        /\ cfgOut.ok
        /\ LET ic == cfgOut.value.interrupt_config
               KeyOf(t) == normalizeUrlExport(t.mcp_server_url) \o <<":", ":">> \o t.name
                              \o <<":", ":">> \o t.mcp_server_name
           IN  /\ \A k \in DOMAIN ic : ic[k] = TRUE
               /\ DOMAIN ic = {KeyOf(cfgIn[i]) : i \in 1..Len(cfgIn)}
               /\ (\A i, j \in 1..Len(cfgIn) : i # j => ConfigTriple(cfgIn[i]) # ConfigTriple(cfgIn[j]))
                     => Cardinality(DOMAIN ic) = Len(cfgIn)

\* C14: createConfig keeps the sequence it is given: the tools of the result
\* are as many as the input tools and the i-th is the i-th input tool with its
\* url normalized and an empty display_name replaced by the name; nothing is
\* reordered and no duplicate is removed.
C14_ConfigKeepsOrder ==
    cfgOut # Null /\ cfgOut.ok =>
        /\ Len(cfgOut.value.tools) = Len(cfgIn)
        /\ \A i \in 1..Len(cfgIn) :
              LET t == cfgIn[i]
                  o == cfgOut.value.tools[i]
              IN  /\ o.name = t.name
                  /\ o.mcp_server_name = t.mcp_server_name
                  /\ o.mcp_server_url = normalizeUrlExport(t.mcp_server_url)
                  /\ o.display_name = (IF t.display_name = <<>> THEN t.name ELSE t.display_name)

C14_Witness ==
    /\ cfgOut # Null /\ cfgOut.ok
    /\ Len(cfgIn) = 2
    /\ cfgIn[1] = cfgIn[2]
    /\ cfgIn[1].display_name = <<>>
    /\ cfgIn[1].mcp_server_url = UrlASlash
    /\ Len(cfgOut.value.tools) = 2

\* C15: createConfig is all-or-nothing: it throws InvalidInput and returns no
\* configuration when a tool at any position has an empty name or an empty
\* mcp_server_url, and it throws for exactly the lists on one of whose tools
\* createToolKey throws.
C15_ConfigAllOrNothing ==
    cfgOut # Null =>
        LET Empty(t) == t.name = <<>> \/ t.mcp_server_url = <<>>
            Required(out) == ~out.ok /\ out.error \in {"tool.mcp_server_url is required",
                                                        "tool.name is required"}
        IN  /\ (\E i \in 1..Len(cfgIn) : Empty(cfgIn[i])) => Required(cfgOut) /\ cfgOut.value = <<>>
            /\ ~cfgOut.ok <=> \E i \in 1..Len(cfgIn) : ~createToolKey(cfgIn[i]).ok

DistinctIds(items) == \A i, j \in 1..Len(items) : i # j => items[i].id # items[j].id

\* C16: addTools skips, without error, a tool whose key is already the id of an
\* item: the items found are kept as they are, in order, as a prefix, each tool
\* of the batch has its key as the id of exactly one item, the ids stay
\* pairwise distinct (also when the batch holds a tool twice), and adding the
\* same tools again changes nothing.
C16_AddToolsIdempotent ==
    /\ DistinctIds(toolbox)
    /\ added.op = "addTools" /\ ~added.threw =>
          /\ Prefix(added.before, toolbox)
          /\ \A i \in 1..Len(added.tools) :
                Cardinality({n \in 1..Len(toolbox) :
                                toolbox[n].id = createToolKey(added.tools[i]).value}) = 1
          /\ Len(toolbox) - Len(added.before) =
                Cardinality({createToolKey(added.tools[i]).value : i \in 1..Len(added.tools)}
                               \ existingIdsOf(added.before))
          /\ LET again == addTools(toolbox, added.tools)
             IN  ~again.threw /\ again.tools = toolbox

C16_Witness ==
    /\ added.op = "addTools" /\ ~added.threw
    /\ added.tools = <<ToolWrite, ToolWrite>>
    /\ existingIdsOf(added.before) = {PresetItem.id, createToolKey(ToolRead).value}
    /\ Len(toolbox) = 3

Fetching(url) == \E p \in pending : p.op = "fetchTools" /\ p.url = url

\* C17: when a fetchTools call has ended, by success or by a thrown error, the
\* loading flag of its URL is false, and the flag of a URL is never true while
\* no fetch for that URL is under way.
C17_LoadingCleared ==
    /\ done.op = "fetchTools" => get(controller.toolLoadingByUrl, done.url) = Flag(FALSE)
    /\ \A url \in DOMAIN controller.toolLoadingByUrl :
          ~Fetching(url) => controller.toolLoadingByUrl[url] # Flag(TRUE)

\* the two records hold the same under every key but url
SameElsewhere(o, before, url) ==
    /\ (DOMAIN o) \ {url} = (DOMAIN before) \ {url}
    /\ \A u \in (DOMAIN o) \ {url} : o[u] = before[u]

\* C18: a fetchTools call during which no other fetch for the same URL ran
\* ends in one of two states for its URL: on success the cache holds the
\* returned list and no error is recorded; on failure the message is recorded,
\* the cache is the empty list and the call throws; what the three records
\* hold under other URLs is as before.
C18_FetchOutcome ==
    done.op = "fetchTools" /\ done.alone =>
       /\ done.res.ok =>
             /\ ~done.threw
             /\ toolsAt(controller.toolsByUrl, done.url) = done.res.tools
             /\ done.url \in DOMAIN controller.toolsByUrl
             /\ get(controller.toolErrorByUrl, done.url) = Undefined
       /\ ~done.res.ok =>
             /\ done.threw
             /\ get(controller.toolErrorByUrl, done.url) = Text(done.res.message)
             /\ done.url \in DOMAIN controller.toolsByUrl
             /\ controller.toolsByUrl[done.url] = <<>>
       /\ SameElsewhere(controller.toolsByUrl, done.before.toolsByUrl, done.url)
       /\ SameElsewhere(controller.toolErrorByUrl, done.before.toolErrorByUrl, done.url)
       /\ SameElsewhere(controller.toolLoadingByUrl, done.before.toolLoadingByUrl, done.url)

\* an updateServer call has just ended and has moved its server to another URL
Migrated ==
    /\ done.op = "updateServer" /\ ~done.threw
    /\ done.url # normalizeUrlExport(done.res.data.url)

MigratedTo == normalizeUrlExport(done.res.data.url)

\* C19: when updateServer has moved a server from the URL old to the URL new,
\* the three records have no entry under old and hold under new what they
\* held under old, every selected key old::x has become new::x while the
\* other keys are kept, and activeUrl has followed if it was old.
C19_MigrationRekeys ==
    Migrated =>
       LET old == done.url
           new == MigratedTo
           before == done.before
           moved(key) == new \o SubSeq(key, Len(old) + 1, Len(key))
           under(key) == startsWith(key, old \o <<":", ":">>)
       IN  /\ old \notin DOMAIN controller.toolsByUrl
           /\ old \notin DOMAIN controller.toolErrorByUrl
           /\ old \notin DOMAIN controller.toolLoadingByUrl
           /\ toolsAt(controller.toolsByUrl, new) = toolsAt(before.toolsByUrl, old)
           /\ get(controller.toolErrorByUrl, new) = get(before.toolErrorByUrl, old)
           /\ get(controller.toolLoadingByUrl, new) = get(before.toolLoadingByUrl, old)
           /\ \A key \in before.selectedKeys :
                 IF under(key) THEN moved(key) \in controller.selectedKeys
                 ELSE key \in controller.selectedKeys
           /\ \A key \in controller.selectedKeys :
                 \/ key \in before.selectedKeys /\ ~under(key)
                 \/ \E was \in before.selectedKeys : under(was) /\ key = moved(was)
           /\ controller.activeUrl =
                 IF before.activeUrl = Active(old) THEN Active(new) ELSE before.activeUrl

C19_Witness ==
    /\ Migrated
    /\ done.before.activeUrl = Active(done.url)
    /\ toolsAt(done.before.toolsByUrl, done.url) # <<>>
    /\ get(done.before.toolLoadingByUrl, done.url) = Flag(FALSE)
    /\ \E key \in done.before.selectedKeys : startsWith(key, done.url \o <<":", ":">>)

\* C20: a URL migration by updateServer keeps the selection: every tool that
\* was in selectedTools before the migration, its list having been fetched
\* before, is in selectedTools after it under the same name.
C20_MigrationKeepsSelection ==
    Migrated =>
       LET was == selectedTools(done.before)
           now == selectedTools(controller)
       IN  \A i \in 1..Len(was) : \E j \in 1..Len(now) :
              /\ now[j].name = was[i].name
              /\ now[j].mcp_server_name = was[i].mcp_server_name

RECURSIVE ToolsOfSucceeded(_)
\* the tools of the first n discoveries that succeeded, in the order of the list
ToolsOfSucceeded(n) ==
    IF n = 0 THEN <<>>
    ELSE ToolsOfSucceeded(n - 1) \o
         (IF disc[n].state = "resolved" THEN disc[n].results[Len(disc[n].results)].tools
          ELSE <<>>)

RECURSIVE UrlsOfFailed(_)
\* the urls of the first n discoveries that failed, in the order of the list
UrlsOfFailed(n) ==
    IF n = 0 THEN <<>>
    ELSE UrlsOfFailed(n - 1) \o
         (IF Failed(disc[n]) THEN <<disc[n].server.url>> ELSE <<>>)

\* C21: the tools GET /tools/all answers with are the tool lists of the servers
\* whose discovery succeeded, concatenated in the order of the registry,
\* whatever the order in which the discoveries ended; a failed server gives no
\* tool and exactly one error record, which carries its url.
C21_MergedInOrder ==
    call.phase = "returned" =>
        LET data == call.result.data
            errors == IF data.errors = Null THEN <<>> ELSE data.errors.items
        IN  /\ data.tools = ToolsOfSucceeded(Len(disc))
            /\ [i \in 1..Len(errors) |-> errors[i].url] = UrlsOfFailed(Len(disc))

\* C22: GET /tools/all answers only when the discovery of every server of the
\* list has ended, by success or by failure, and each of them has run its own
\* cascade to its end: a discovery that failed has tried all three steps and
\* one that succeeded ended with a step that succeeded, whatever happened to
\* the discoveries of the other servers.
C22_Barrier ==
    call.phase = "returned" =>
        \A i \in 1..Len(disc) :
            /\ disc[i].state \in {"resolved", "rejected"}
            /\ disc[i].item # NoItem
            /\ disc[i].state = "rejected" => Len(disc[i].results) = Len(steps)
            /\ disc[i].state = "resolved" => disc[i].results[Len(disc[i].results)].ok

C22_Witness ==
    /\ call.phase = "returned"
    /\ Len(disc) = 2
    /\ disc[1].state = "rejected"
    /\ disc[2].state = "resolved"
    /\ Len(disc[2].results) = 3
    /\ disc[2].item.tools # <<>>

\* the URLs for which a fetchTools call starts or ends in the step
TouchedUrls == {p.url : p \in (pending \ pending') \cup (pending' \ pending)}

\* what the three records hold under url
Entries(c, url) ==
    [cached |-> url \in DOMAIN c.toolsByUrl, tools |-> toolsAt(c.toolsByUrl, url),
     error |-> get(c.toolErrorByUrl, url), loading |-> get(c.toolLoadingByUrl, url)]

\* what a fetchTools call that ran alone on its URL leaves there
Outcome(res) ==
    [cached |-> TRUE, tools |-> IF res.ok THEN res.tools ELSE <<>>,
     error |-> IF res.ok THEN Undefined ELSE Text(res.message), loading |-> Flag(FALSE)]

\* C23: fetchTools calls for different URLs do not see each other: a step of a
\* call leaves what the three records hold under every other URL as it is,
\* and a call during which no other fetch for its URL ran leaves under its URL
\* what its own answer determines, however the calls are interleaved.
C23_FetchesIndependent ==
    [][/\ \A url \in (DOMAIN controller.toolsByUrl) \cup (DOMAIN controller.toolErrorByUrl)
                       \cup (DOMAIN controller.toolLoadingByUrl) \cup serverUrls(controller) :
             url \notin TouchedUrls => Entries(controller', url) = Entries(controller, url)
       /\ done'.op = "fetchTools" /\ done' # done /\ done'.alone =>
             Entries(controller', done'.url) = Outcome(done'.res)]_vars

C23_Witness ==
    /\ done.op = "fetchTools" /\ done.alone
    /\ \E p \in pending : p.op = "fetchTools" /\ p.url # done.url
    /\ \E url \in DOMAIN done.before.toolsByUrl :
          url # done.url /\ done.before.toolsByUrl[url] # <<>>

\* a fetchTools call ends in the step
FetchEnds == done' # done /\ done'.op = "fetchTools"

\* C24: a fetchTools call for a URL with a fetch in flight cancels nothing:
\* every call in flight stays in flight until its own answer is there, each
\* call writes the cache of the URL when it ends, and nothing else writes it,
\* so that once they are done the cache is that of the call that ended last.
C24_LastCompletionWins ==
    [][/\ \A p \in pending :
             \/ \E q \in pending' : q.op = p.op /\ q.id = p.id /\ q.body = p.body
             \/ FetchEnds /\ done'.url = p.url /\ done'.id = p.id
       /\ FetchEnds =>
             /\ done'.url \in DOMAIN controller'.toolsByUrl
             /\ controller'.toolsByUrl[done'.url] =
                   IF done'.res.ok THEN done'.res.tools ELSE <<>>
       /\ ~FetchEnds => controller'.toolsByUrl = controller.toolsByUrl]_vars

C24_Witness ==
    /\ done.op = "fetchTools" /\ ~done.alone
    /\ done.id = 0 /\ calls = 2 /\ pending = {}
    /\ get(done.before.toolLoadingByUrl, done.url) = Flag(FALSE)
    /\ done.res.ok
    /\ toolsAt(done.before.toolsByUrl, done.url) # done.res.tools
    /\ toolsAt(done.before.toolsByUrl, done.url) # <<>>

\* the call that just ended has put an error item in front of the log
LoggedError ==
    /\ Len(controller.logs) = Len(done.before.logs) + 1
    /\ Tail(controller.logs) = done.before.logs
    /\ Head(controller.logs).level = "error"
    /\ Head(controller.logs).serverUrl = done.url

\* C25: every controller call that fails (addServer, updateServer, removeServer
\* or fetchTools, by a refused backend call or by the local check for a
\* duplicate URL) puts an error item with the URL of the server in front of
\* the activity log.
C25_FailuresLogged ==
    done.op \in {"addServer", "updateServer", "removeServer", "fetchTools"} /\ done.threw
        => LoggedError


ToolsUrl == normalizeUrlExport(UrlTools)

\* the server of tools.example.com is registered, its three tools are cached
\* and two keys are selected
TwoOfThree ==
    /\ ToolsUrl \in serverUrls(controller)
    /\ Len(toolsAt(controller.toolsByUrl, ToolsUrl)) = 3
    /\ Cardinality(controller.selectedKeys) = 2

IdsOf(items) == [i \in 1..Len(items) |-> items[i].id]

KeysOf(tools) == [i \in 1..Len(tools) |-> createToolKey(tools[i]).value]

\* C26: once the server of https://tools.example.com/ is registered, its
\* three tools are fetched and two of them are toggled, selectedTools has two
\* tools, createConfig on it returns two tools and an interrupt_config of
\* exactly two keys, all true, and addTools on an empty toolbox gives two
\* items whose ids are the keys of the two selected tools; after the write-back
\* of two tools into an empty toolbox the toolbox holds these two items and
\* the selection is empty.
C26_PickerToToolbox ==
    /\ TwoOfThree =>
          LET sel == selectedTools(controller)
              cfg == createConfig(sel)
              box == addTools(<<>>, sel)
          IN  /\ Len(sel) = 2
              /\ cfg.ok
              /\ Len(cfg.value.tools) = 2
              /\ Cardinality(DOMAIN cfg.value.interrupt_config) = 2
              /\ \A k \in DOMAIN cfg.value.interrupt_config : cfg.value.interrupt_config[k] = TRUE
              /\ ~box.threw
              /\ IdsOf(box.tools) = KeysOf(sel)
    /\ added.op = "addTools" /\ added.before = <<>> /\ Len(added.tools) = 2 =>
          /\ IdsOf(toolbox) = KeysOf(added.tools)
          /\ Len(toolbox) = 2
          /\ controller.selectedKeys = {}
          /\ selectedTools(controller) = <<>>

C26_Witness ==
    /\ added.op = "addTools" /\ added.before = <<>> /\ Len(added.tools) = 2
    /\ added.tools[1].mcp_server_url = ToolsUrl
    /\ Len(toolbox) = 2
    /\ controller.selectedKeys = {}

\* the raw entries of the answer that ended the cascade of POST /api/mcp/tools
LastGiven == query.given[Len(query.given)]

RawItems(o) ==
    IF o.kind = "items" THEN o.items
    ELSE IF o.res.body.shape \in {"array", "tools", "result"} THEN o.res.body.items
    ELSE <<>>

Named(raw) == raw.name.type = "string" /\ raw.name.text # <<>>

\* C27: the tools POST /api/mcp/tools answers with are the raw entries of the
\* answer that have a non-empty string name, in their order, however many
\* entries were dropped; each has a non-empty name, the name of its entry, and
\* the name and the url of the server handed to listTools, whatever the entry
\* says of its server.
C27_MappingDropsNameless ==
    query.phase = "returned" /\ query.res.ok =>
        LET kept == SelectSeq(RawItems(LastGiven), Named)
            tools == query.res.data.tools
        IN  /\ Len(tools) = Len(kept)
            /\ \A i \in 1..Len(tools) :
                  /\ tools[i].name = kept[i].name.text
                  /\ tools[i].name # <<>>
                  /\ tools[i].mcp_server_name = query.d.server.name
                  /\ tools[i].mcp_server_url = normalizeServer(query.body.url)

\* a REST answer of four entries, two of them without a name and one naming
\* another server, has given two tools of the queried server
C27_Witness ==
    /\ query.phase = "returned" /\ query.res.ok
    /\ LastGiven.kind = "response"
    /\ Len(RawItems(LastGiven)) = 4
    /\ Len(query.res.data.tools) = 2
    /\ \E i \in 1..4 : /\ Named(RawItems(LastGiven)[i])
                       /\ RawItems(LastGiven)[i].mcp_server_name.type = "string"
                       /\ RawItems(LastGiven)[i].mcp_server_name.text # query.d.server.name

IsResponse(o) == o.kind = "response"

Accepted(payload) == payload.shape \in {"array", "tools", "result"}

\* C28: in POST /api/mcp/tools a response of listGet or listRpc with a status
\* outside 200..299 is a failure of its step, after which the next step is
\* started, or listTools throws when it was the last; a response with a status
\* in 200..299 whose body is not JSON or has none of the accepted shapes
\* is a success of its step with no tools, listTools returns no tools and
\* no further step is started.
C28_StatusDecides ==
    query.phase # "idle" =>
        \A k \in 1..Len(query.given) :
            LET o == query.given[k]
                d == query.d
            IN  IsResponse(o) =>
                  /\ ~resOk(o.res) =>
                        /\ ~d.results[k].ok
                        /\ IF k < Len(steps)
                           THEN Len(d.started) > k /\ d.started[k + 1] = steps[k + 1]
                           ELSE d.state = "rejected"
                  /\ resOk(o.res) /\ ~Accepted(o.res.body) =>
                        /\ d.results[k].ok /\ d.results[k].tools = <<>>
                        /\ d.state = "resolved" /\ d.item.tools = <<>>
                        /\ Len(d.started) = k /\ Len(query.given) = k

\* REST GET was answered 404, then JSON-RPC POST was answered 200 with a body
\* that is not JSON: the request has returned no tools
C28_Witness ==
    /\ query.phase = "returned" /\ query.res.ok /\ query.res.data.tools = <<>>
    /\ Len(query.given) = 3
    /\ IsResponse(query.given[2]) /\ ~resOk(query.given[2].res)
    /\ IsResponse(query.given[3]) /\ query.given[3].res.body.shape = "unparseable"

IsAbort(o) == o.kind = "reject" /\ o.error = Err("This operation was aborted")

Waiting == query.phase = "running" /\ query.d.state = "pending"

\* C29: while POST /api/mcp/tools waits for the network in listGet or listRpc
\* (for the response, or for its body) the timer of that request is armed, so
\* the wait ends when it fires; a request the timer has aborted is a failure of
\* its step, after which the next step is started, or listTools throws when it
\* was the last; no timer stays armed once its request is over.
C29_BoundedWait ==
    query.phase # "idle" =>
        /\ \A name \in {"listGet", "listRpc"} :
              query.timers[name] = "armed" <=> Waiting /\ steps[query.d.step] = name
        /\ \A k \in 1..Len(query.given) :
              IsAbort(query.given[k]) =>
                  /\ ~query.d.results[k].ok
                  /\ IF k < Len(steps)
                     THEN Len(query.d.started) > k /\ query.d.started[k + 1] = steps[k + 1]
                     ELSE query.d.state = "rejected"

\* C30: no step of a discovery writes the registry: when POST /api/mcp/tools
\* or GET /api/mcp/tools/all starts, goes on, returns or hands back its
\* response, the registry is after the step what it was before it.
C30_DiscoveryKeepsRegistry ==
    [][query' # query \/ call' # call \/ disc' # disc => servers' = servers]_vars

\* POST /api/mcp/tools has answered for a url that is not registered and
\* GET /api/mcp/tools/all has answered for the servers of the registry, which
\* holds what it held when the first of them started
C30_Witness ==
    /\ query.phase = "returned"
    /\ query.given # <<>>
    /\ servers # <<>>
    /\ ~MapHas(servers, normalizeServer(query.body.url))
    /\ servers = query.before
    /\ call.phase = "returned"
    /\ MapValues(servers) = [i \in 1..Len(disc) |-> disc[i].server]

\* the status the failure classes stand for
StatusFor(res) ==
    CASE ErrorKind(res) = "NotFound" -> 404
      [] ErrorKind(res) = "Conflict" -> 409
      [] OTHER -> 400

\* C31: a registry request that fails is answered with the status of its
\* failure class: 400 for a missing or invalid name or url, 409 for a url that
\* is taken, 404 for a url that is not registered; POST /api/mcp/tools whose
\* discovery has failed is answered with 502.
C31_TypedStatuses ==
    /\ handled.op \in {"add", "update", "remove"} /\ ~handled.res.ok =>
          statusOf(handled.res) = StatusFor(handled.res)
    /\ query.phase = "returned" /\ query.d.state = "rejected" =>
          statusOf(query.res) = 502

\* C32: the serverCount GET /api/mcp/tools/all answers with is the number of
\* servers whose listTools call this request started, whatever was added to
\* or removed from the registry while these calls were awaited.
C32_CountsAttempted ==
    call.phase = "returned" => call.result.data.serverCount = Len(disc)

NoFetch == \A p \in pending : p.op # "fetchTools"

KeyedUrls(c) == (DOMAIN c.toolsByUrl) \cup (DOMAIN c.toolErrorByUrl) \cup (DOMAIN c.toolLoadingByUrl)

\* C33: whenever no fetchTools call is awaiting its answer, every URL that is
\* a key of toolsByUrl, toolErrorByUrl or toolLoadingByUrl is the normalized
\* URL of a server of servers.
C33_NoOrphanedEntry ==
    NoFetch => KeyedUrls(controller) \subseteq serverUrls(controller)

\* C34: while a fetchTools call for a URL has started and has not finished,
\* toolLoadingByUrl of that URL is true.
C34_LoadingWhileFetching ==
    \A p \in pending :
        p.op = "fetchTools" => get(controller.toolLoadingByUrl, p.url) = Flag(TRUE)

HasError(c, url) == get(c.toolErrorByUrl, url) # Undefined

\* C35: for every URL no fetchTools call is awaiting an answer for, an error
\* recorded in toolErrorByUrl goes with an empty tool cache, and so a cache
\* that is not empty goes with no recorded error.
C35_ErrorOrCache ==
    \A url \in KeyedUrls(controller) :
        ~Fetching(url) /\ HasError(controller, url) => toolsAt(controller.toolsByUrl, url) = <<>>

\* the state of the controller but for its log
Frame(c) ==
    [servers |-> c.servers, activeUrl |-> c.activeUrl, toolsByUrl |-> c.toolsByUrl,
     toolErrorByUrl |-> c.toolErrorByUrl, toolLoadingByUrl |-> c.toolLoadingByUrl,
     selectedKeys |-> c.selectedKeys]

FailedWrite == done.op \in {"addServer", "updateServer", "removeServer"} /\ done.threw

\* C36: when addServer, updateServer or removeServer has thrown, for the
\* duplicate URL it found itself or for the failure the backend answered with,
\* servers, activeUrl, toolsByUrl, toolErrorByUrl, toolLoadingByUrl and
\* selectedKeys are what they were before the call threw.
C36_FailedWriteKeepsState ==
    FailedWrite => Frame(controller) = Frame(done.before)

\* removeServer was rejected by the backend while the controller still shows
\* servers and holds a cache
C36_Witness ==
    /\ FailedWrite
    /\ done.op = "removeServer"
    /\ done.url \in serverUrls(controller) \/ controller.servers # <<>>
    /\ DOMAIN controller.toolsByUrl # {}

\* C37: activeUrl is null or the normalized URL of a server of servers,
\* whatever refreshServers, addServer, updateServer and removeServer calls
\* have run; and a removeServer that has removed the active server has left
\* activeUrl at the first server that remains, or null when none remains.
C37_ActiveIsServer ==
    /\ controller.activeUrl # Null => controller.activeUrl.url \in serverUrls(controller)
    /\ (done.op = "removeServer" /\ ~done.threw /\ done.before.activeUrl = Active(done.url))
          => controller.activeUrl =
                IF controller.servers = <<>> THEN Null
                ELSE Active(normalizeUrlExport(controller.servers[1].url))


\* the tools of the last write that were made into items
WrittenTools ==
    IF added.op = "mergeWithMcpTools" /\ added.maxToolsPerNode # 0
       /\ Len(added.tools) > added.maxToolsPerNode
    THEN SubSeq(added.tools, 1, added.maxToolsPerNode)
    ELSE added.tools

\* C38: after addTools or mergeWithMcpTools has written tools into the
\* node, every item that was not in the node before has the toolKey of one of
\* the written tools as its id, every written tool has an item under its
\* toolKey, and no two items of the node have the same id.
C38_IdIsToolKey ==
    (added.op \in {"addTools", "mergeWithMcpTools"} /\ ~added.threw) =>
        /\ \A i \in 1..Len(toolbox) :
              toolbox[i].id \notin existingIdsOf(added.before) =>
                 \E k \in 1..Len(WrittenTools) :
                    toolbox[i].id = createToolKey(WrittenTools[k]).value
        /\ \A k \in 1..Len(WrittenTools) :
              /\ createToolKey(WrittenTools[k]).ok
              /\ createToolKey(WrittenTools[k]).value \in existingIdsOf(toolbox)
        /\ \A i, j \in 1..Len(toolbox) : toolbox[i].id = toolbox[j].id => i = j

=============================================================================
